---- MODULE Spec2Model ----
(***************************************************************************)
(* crev-wot: the in-memory proof database (ProofDB), its lazily derived    *)
(* alternatives index and the Web-of-Trust computation                    *)
(* (calculate_trust_set), modelled from crev-wot/src/lib.rs.               *)
(*                                                                         *)
(* The specifications share the variables:                                 *)
(*   Spec      - ingestion (add_proof) interleaved with alternatives       *)
(*               queries on one store;                                     *)
(*   SpecOrder - the same set of proofs ingested into two stores in two    *)
(*               orders;                                                   *)
(*   SpecTrust - calculate_trust_set on a store holding a trust graph;     *)
(*   SpecTrustFair - SpecTrust with the steps of the call always taken;    *)
(*   SpecBan   - calculate_trust_set for a root that trusts the two other  *)
(*               ids, which hold further edges;                            *)
(*   SpecIssues - package reviews with issues and advisories, and the      *)
(*               queries by (source, name, version);                       *)
(*   SpecReaders, SpecReadersFair - threads inside                         *)
(*               get_derived_alternatives on one RwLock.                   *)
(***************************************************************************)
EXTENDS Integers, Sequences, FiniteSets, TLC

VARIABLES
    db,                         \* ProofDB, all fields but derived_alternatives
    derived_alternatives,       \* ProofDB.derived_alternatives (AlternativesData)
    ingested,                   \* history: the (proof, fetch source) pairs given to add_proof
    queried,                    \* history: the last operation was an alternatives query
    db2, pool, pool2,           \* SpecOrder: second store, proofs still to ingest
    for_id, params,             \* calculate_trust_set: arguments
    pc,                         \* calculate_trust_set: position
    distrusted,                 \* calculate_trust_set: `distrusted`
    prev_distrusted_len,        \* calculate_trust_set: `prev_distrusted_len`
    pending,                    \* calculate_trust_set_internal: `pending`
    current_trust_set,          \* calculate_trust_set_internal: `current_trust_set`
    initial_distrusted_len,     \* calculate_trust_set_internal: `initial_distrusted_len`
    previous_iter_trust_level,  \* calculate_trust_set_internal: `previous_iter_trust_level`
    trust_set,                  \* calculate_trust_set: `trust_set` (the value returned)
    current,                    \* calculate_trust_set_internal: `current`, the visit popped last
    passes,                     \* history: the calls of calculate_trust_set_internal so far
    answer,                     \* the last package query: its arguments and what it returned
    lock,                       \* derived_alternatives: the state of the RwLock
    tpc,                        \* get_derived_alternatives: position of each thread
    guard                       \* get_derived_alternatives: what each returned read guard shows

storeVars == <<db, derived_alternatives, ingested, queried>>
orderVars == <<db2, pool, pool2>>
trustVars == <<for_id, params, pc, distrusted, prev_distrusted_len, pending,
               current_trust_set, initial_distrusted_len,
               previous_iter_trust_level, trust_set, current, passes>>
issueVars == <<answer>>
readerVars == <<lock, tpc, guard>>
restVars == <<issueVars, readerVars>>
vars == <<storeVars, orderVars, trustVars, restVars>>

----------------------------------------------------------------------------
(* Bounds of the model *)

\* number of add_proof calls on the store of Spec
MaxProofs == 2
\* number of proofs ingested in both orders in SpecOrder
MaxOrderProofs == 2
\* number of trust edges of the graph of SpecTrust
MaxEdges == 3
\* number of edges of the graph of SpecBan besides the two edges of the root
MaxBanEdges == 2

----------------------------------------------------------------------------
(* Maps (HashMap / BTreeMap) are functions with a finite domain *)

EmptyMap == << >>

Put(m, k, v) == [x \in (DOMAIN m) \cup {k} |-> IF x = k THEN v ELSE m[x]]

GetOr(m, k, d) == IF k \in DOMAIN m THEN m[k] ELSE d

Remove(m, k) == [x \in (DOMAIN m) \ {k} |-> m[x]]

\* Option<T>: << >> is None, <<v>> is Some(v)
NoneOpt == << >>
Some(v) == <<v>>
IsSome(o) == Len(o) = 1

----------------------------------------------------------------------------
(* TrustLevel, ordered Distrust < None < Low < Medium < High *)

Distrust == 0
NoneLevel == 1
Low == 2
Medium == 3
High == 4
TrustLevels == {Distrust, NoneLevel, Low, Medium, High}

MinLevel(a, b) == IF a <= b THEN a ELSE b

----------------------------------------------------------------------------
(* Timestamped<T> *)

Timestamped(date, value) == [date |-> date, value |-> value]

\* mutation: strict comparison, the first of two equally dated values is kept
update_to_more_recent_strict(self, other) ==
    IF self.date < other.date
    THEN [date |-> other.date, value |-> other.value]
    ELSE self

\* mutation: the comparison is reversed, the oldest value is kept
update_to_more_recent_reversed(self, other) ==
    IF self.date >= other.date
    THEN [date |-> other.date, value |-> other.value]
    ELSE self

update_to_more_recent(self, other) ==
    IF self.date <= other.date
    THEN [date |-> other.date, value |-> other.value]
    ELSE self

\* map.entry(k).and_modify(|e| e.update_to_more_recent(&ts)).or_insert_with(|| ts)
EntryUpdate(m, k, ts) ==
    IF k \in DOMAIN m
    THEN Put(m, k, update_to_more_recent(m[k], ts))
    ELSE Put(m, k, ts)

----------------------------------------------------------------------------
(* Values carried by proofs *)

LocalUser == [tag |-> "LocalUser"]
FetchUrl(u) == [tag |-> "Url", url |-> u]

PublicId(id, url) == [id |-> id, url |-> url]

PackageId(source, name) == [source |-> source, name |-> name]

PackageVersionId(pkg, version) == [id |-> pkg, version |-> version]

\* impl From<&review::Package> for PkgVersionReviewId
PkgVersionReviewId(review) ==
    [from |-> review.from.id, package_version_id |-> review.package.id]

----------------------------------------------------------------------------
(* AlternativesData *)

AlternativesData_new ==
    [derived_recalculation_counter |-> 0, for_pkg |-> EmptyMap, reported_by |-> EmptyMap]

\* mutation: the stale index is kept and added to
wipe_nothing(self) == self

wipe(self) == AlternativesData_new

\* for_pkg.entry(a).or_default().entry(id).or_default().insert(b)
ForPkgInsert(for_pkg, a, id, b) ==
    LET by_id == GetOr(for_pkg, a, EmptyMap)
    IN Put(for_pkg, a, Put(by_id, id, GetOr(by_id, id, {}) \cup {b}))

\* reported_by.entry((a, b)).or_default().insert(id, signature)
ReportedByInsert(reported_by, a, b, id, signature) ==
    Put(reported_by, <<a, b>>, Put(GetOr(reported_by, <<a, b>>, EmptyMap), id, signature))

\* mutation: only the direction a -> b is recorded
record_alternative_one_way(self, a, b, id, signature) ==
    [self EXCEPT
        !.for_pkg = ForPkgInsert(self.for_pkg, a, id, b),
        !.reported_by = ReportedByInsert(self.reported_by, a, b, id, signature)]

\* the body of the loop of record_from_proof, for one alternative b of package a
record_alternative(self, a, b, id, signature) ==
    [self EXCEPT
        !.for_pkg = ForPkgInsert(ForPkgInsert(self.for_pkg, a, id, b), b, id, a),
        !.reported_by = ReportedByInsert(
                            ReportedByInsert(self.reported_by, a, b, id, signature),
                            b, a, id, signature)]

RECURSIVE RecordAlternatives(_, _, _, _)
RecordAlternatives(self, review, signature, alts) ==
    IF alts = {} THEN self
    ELSE LET b == CHOOSE x \in alts : TRUE
         IN RecordAlternatives(
                record_alternative(self, review.package.id.id, b, review.from.id, signature),
                review, signature, alts \ {b})

record_from_proof(self, review, signature) ==
    RecordAlternatives(self, review, signature, review.alternatives)

----------------------------------------------------------------------------
(* ProofDB *)

ProofDB_new ==
    [trust_id_to_id |-> EmptyMap,
     url_by_id_self_reported |-> EmptyMap,
     url_by_id_reported_by_others |-> EmptyMap,
     package_review_by_signature |-> EmptyMap,
     package_review_signatures_by_package_digest |-> EmptyMap,
     package_review_signatures_by_pkg_review_id |-> EmptyMap,
     package_reviews |-> EmptyMap,
     package_flags |-> EmptyMap,
     package_alternatives |-> EmptyMap,
     insertion_counter |-> 0]

\* the (package, author) pairs of package_alternatives
AlternativesKeys(d) ==
    UNION {{<<p, i>> : i \in DOMAIN d.package_alternatives[p]} :
              p \in DOMAIN d.package_alternatives}

\* the orders in which a HashMap may hand out the elements of S
Orders(S) ==
    {s \in [1..Cardinality(S) -> S] : \A i, j \in 1..Cardinality(S) : s[i] = s[j] => i = j}

RECURSIVE RecordAll(_, _, _, _)
RecordAll(d, write, ord, i) ==
    IF i > Len(ord) THEN write
    ELSE LET signature == d.package_alternatives[ord[i][1]][ord[i][2]]
         IN RecordAll(d,
                      record_from_proof(write,
                                        d.package_review_by_signature[signature.value],
                                        signature.value),
                      ord, i + 1)

\* get_derived_alternatives: the AlternativesData behind the returned read guard;
\* ord is the order in which package_alternatives is iterated
get_derived_alternatives(d, read, ord) ==
    IF read.derived_recalculation_counter = d.insertion_counter
    THEN read
    ELSE [RecordAll(d, wipe(read), ord, 1)
            EXCEPT !.derived_recalculation_counter = d.insertion_counter]

\* the two public queries, on the AlternativesData get_derived_alternatives returned
get_pkg_alternatives_by_author(alternatives, from, pkg_id) ==
    IF pkg_id \in DOMAIN alternatives.for_pkg
    THEN GetOr(alternatives.for_pkg[pkg_id], from, {})
    ELSE {}

get_pkg_alternatives(alternatives, pkg_id) ==
    IF pkg_id \in DOMAIN alternatives.for_pkg
    THEN UNION {{<<id, v>> : v \in alternatives.for_pkg[pkg_id][id]} :
                   id \in DOMAIN alternatives.for_pkg[pkg_id]}
    ELSE {}

\* record_url_from_to_field: or_insert_with, an existing entry is kept
record_url_from_to_field(d, date, to) ==
    IF IsSome(to.url) /\ to.id \notin DOMAIN d.url_by_id_reported_by_others
    THEN [d EXCEPT !.url_by_id_reported_by_others =
                Put(@, to.id, Timestamped(date, to.url[1]))]
    ELSE d

\* mutation: the verified flag follows the last proof instead of being sticky
record_url_from_from_field_resetting(d, date, from, fetched_from) ==
    IF IsSome(from.url)
    THEN LET url == from.url[1]
             tu == Timestamped(date, url)
             fetch_matches ==
                 \/ fetched_from.tag = "LocalUser"
                 \/ fetched_from.tag = "Url" /\ fetched_from.url = url
             m == d.url_by_id_self_reported
         IN [d EXCEPT !.url_by_id_self_reported =
                IF from.id \in DOMAIN m
                THEN Put(m, from.id, <<update_to_more_recent(m[from.id][1], tu),
                                       fetch_matches>>)
                ELSE Put(m, from.id, <<tu, fetch_matches>>)]
    ELSE d

record_url_from_from_field(d, date, from, fetched_from) ==
    IF IsSome(from.url)
    THEN LET url == from.url[1]
             tu == Timestamped(date, url)
             fetch_matches ==
                 \/ fetched_from.tag = "LocalUser"
                 \/ fetched_from.tag = "Url" /\ fetched_from.url = url
             m == d.url_by_id_self_reported
         IN [d EXCEPT !.url_by_id_self_reported =
                IF from.id \in DOMAIN m
                THEN Put(m, from.id, <<update_to_more_recent(m[from.id][1], tu),
                                       m[from.id][2] \/ fetch_matches>>)
                ELSE Put(m, from.id, <<tu, fetch_matches>>)]
    ELSE d

add_code_review(d, review, fetched_from) ==
    record_url_from_from_field(d, review.date, review.from, fetched_from)

\* mutation: the counter is advanced a second time
bump_insertion_counter_twice(d) == [d EXCEPT !.insertion_counter = @ + 2]

\* self.insertion_counter += 1
bump_insertion_counter(d) == [d EXCEPT !.insertion_counter = @ + 1]

\* mutation: the review is not stored under its signature
add_package_review_unstored(d, review, signature, fetched_from) ==
    LET d1 == record_url_from_from_field(bump_insertion_counter(d),
                                         review.date, review.from, fetched_from)
        pkg_review_id == PkgVersionReviewId(review)
        timestamp_signature == Timestamped(review.date, signature)
        timestamp_flags == Timestamped(review.date, review.flags)
        pkg == review.package.id.id
        by_source == GetOr(d1.package_reviews, pkg.source, EmptyMap)
        by_name == GetOr(by_source, pkg.name, EmptyMap)
        by_version == GetOr(by_name, review.package.id.version, {})
    IN [d1 EXCEPT
          !.package_review_signatures_by_package_digest =
              Put(@, review.package.digest,
                  EntryUpdate(GetOr(@, review.package.digest, EmptyMap),
                              pkg_review_id, timestamp_signature)),
          !.package_review_signatures_by_pkg_review_id =
              EntryUpdate(@, pkg_review_id, timestamp_signature),
          !.package_reviews =
              Put(@, pkg.source,
                  Put(by_source, pkg.name,
                      Put(by_name, review.package.id.version,
                          by_version \cup {pkg_review_id}))),
          !.package_alternatives =
              Put(@, pkg, EntryUpdate(GetOr(@, pkg, EmptyMap), review.from.id,
                                      timestamp_signature)),
          !.package_flags =
              Put(@, pkg, EntryUpdate(GetOr(@, pkg, EmptyMap), review.from.id,
                                      timestamp_flags))]

add_package_review(d, review, signature, fetched_from) ==
    LET d1 == record_url_from_from_field(bump_insertion_counter(d),
                                         review.date, review.from, fetched_from)
        pkg_review_id == PkgVersionReviewId(review)
        timestamp_signature == Timestamped(review.date, signature)
        timestamp_flags == Timestamped(review.date, review.flags)
        pkg == review.package.id.id
        by_source == GetOr(d1.package_reviews, pkg.source, EmptyMap)
        by_name == GetOr(by_source, pkg.name, EmptyMap)
        by_version == GetOr(by_name, review.package.id.version, {})
    IN [d1 EXCEPT
          !.package_review_by_signature =
              IF signature \in DOMAIN @ THEN @ ELSE Put(@, signature, review),
          !.package_review_signatures_by_package_digest =
              Put(@, review.package.digest,
                  EntryUpdate(GetOr(@, review.package.digest, EmptyMap),
                              pkg_review_id, timestamp_signature)),
          !.package_review_signatures_by_pkg_review_id =
              EntryUpdate(@, pkg_review_id, timestamp_signature),
          !.package_reviews =
              Put(@, pkg.source,
                  Put(by_source, pkg.name,
                      Put(by_name, review.package.id.version,
                          by_version \cup {pkg_review_id}))),
          !.package_alternatives =
              Put(@, pkg, EntryUpdate(GetOr(@, pkg, EmptyMap), review.from.id,
                                      timestamp_signature)),
          !.package_flags =
              Put(@, pkg, EntryUpdate(GetOr(@, pkg, EmptyMap), review.from.id,
                                      timestamp_flags))]

add_trust_raw(d, from, to, date, trust) ==
    [d EXCEPT !.trust_id_to_id =
        Put(@, from, EntryUpdate(GetOr(@, from, EmptyMap), to, Timestamped(date, trust)))]

RECURSIVE AddTrustEdges(_, _, _)
AddTrustEdges(d, trust, i) ==
    IF i > Len(trust.ids) THEN d
    ELSE AddTrustEdges(add_trust_raw(d, trust.from.id, trust.ids[i].id,
                                     trust.date, trust.trust),
                       trust, i + 1)

RECURSIVE RecordToUrls(_, _, _)
RecordToUrls(d, trust, i) ==
    IF i > Len(trust.ids) THEN d
    ELSE RecordToUrls(record_url_from_to_field(d, trust.date, trust.ids[i]), trust, i + 1)

add_trust(d, trust, fetched_from) ==
    RecordToUrls(
        AddTrustEdges(record_url_from_from_field(d, trust.date, trust.from, fetched_from),
                      trust, 1),
        trust, 1)

\* mutation: the counter of a package review is advanced before its content is parsed
add_proof_counting_first(d, proof, fetched_from) ==
    IF proof.kind \notin {"code review", "package review", "trust"}
    THEN [db |-> d, res |-> "UnknownProofType"]
    ELSE IF ~proof.parsable
    THEN [db |-> IF proof.kind = "package review" THEN bump_insertion_counter(d) ELSE d,
          res |-> "Data"]
    ELSE IF proof.kind = "code review"
    THEN [db |-> add_code_review(d, proof.content, fetched_from), res |-> "Ok"]
    ELSE IF proof.kind = "package review"
    THEN [db |-> [add_package_review(d, proof.content, proof.signature, fetched_from)
                    EXCEPT !.insertion_counter = d.insertion_counter + 1],
          res |-> "Ok"]
    ELSE [db |-> add_trust(d, proof.content, fetched_from), res |-> "Ok"]

\* add_proof: the store afterwards and the Result
add_proof(d, proof, fetched_from) ==
    IF proof.kind \notin {"code review", "package review", "trust"}
    THEN [db |-> d, res |-> "UnknownProofType"]
    ELSE IF ~proof.parsable
    THEN [db |-> d, res |-> "Data"]
    ELSE IF proof.kind = "code review"
    THEN [db |-> add_code_review(d, proof.content, fetched_from), res |-> "Ok"]
    ELSE IF proof.kind = "package review"
    THEN [db |-> add_package_review(d, proof.content, proof.signature, fetched_from),
          res |-> "Ok"]
    ELSE [db |-> add_trust(d, proof.content, fetched_from), res |-> "Ok"]

lookup_url(d, id) ==
    IF id \in DOMAIN d.url_by_id_self_reported
    THEN IF d.url_by_id_self_reported[id][2]
         THEN <<"FromSelfVerified", d.url_by_id_self_reported[id][1].value>>
         ELSE <<"FromSelf", d.url_by_id_self_reported[id][1].value>>
    ELSE IF id \in DOMAIN d.url_by_id_reported_by_others
    THEN <<"FromOthers", d.url_by_id_reported_by_others[id].value>>
    ELSE <<"None">>

----------------------------------------------------------------------------
(* The proofs handed to add_proof *)

StoreIds == 1..2
Urls == {"https://a.example", "https://other"}
Dates == 1..2
OptUrls == {NoneOpt} \cup {Some(u) : u \in Urls}
FetchSources == {LocalUser, FetchUrl("https://a.example")}

\* the authors of trust proofs and package reviews: one declares no URL, one does
Authors == {PublicId(1, NoneOpt), PublicId(2, Some("https://a.example"))}

Packages == {PackageId("crates", "x"), PackageId("crates", "y")}

\* the digest of the reviewed package version
DigestOf(pkg) == IF pkg.name = "x" THEN "dx" ELSE "dy"

CodeReviews ==
    {[from |-> PublicId(2, u), date |-> t] : u \in OptUrls, t \in Dates}

TrustSubjects == {PublicId(1, Some("https://a.example")), PublicId(1, Some("https://other")),
                  PublicId(2, Some("https://other"))}

Trusts ==
    {[from |-> a, date |-> t, trust |-> l, ids |-> <<s>>] :
        a \in Authors, t \in Dates, l \in {Distrust, High}, s \in TrustSubjects}
    \cup
    {[from |-> PublicId(1, NoneOpt), date |-> t, trust |-> Medium,
      ids |-> <<PublicId(1, NoneOpt), PublicId(2, NoneOpt)>>] : t \in Dates}

\* a review either declares the other package as alternative and carries the flag
\* `unmaintained`, or neither
PackageReviews ==
    {[from |-> a, date |-> t,
      package |-> [id |-> PackageVersionId(p, 1), digest |-> DigestOf(p)],
      flags |-> [unmaintained |-> alt],
      alternatives |-> IF alt THEN Packages \ {p} ELSE {},
      issues |-> << >>, advisories |-> << >>] :
        a \in Authors, t \in Dates, p \in Packages, alt \in BOOLEAN}

\* the signature of a proof: the author's signature over the content, one per content
Sign(content) == <<"sig", content>>

Proofs ==
    {[kind |-> "code review", parsable |-> TRUE, content |-> c, signature |-> Sign(c)] :
        c \in CodeReviews}
    \cup {[kind |-> "trust", parsable |-> TRUE, content |-> c, signature |-> Sign(c)] :
        c \in Trusts}
    \cup {[kind |-> "package review", parsable |-> TRUE, content |-> c, signature |-> Sign(c)] :
        c \in PackageReviews}
    \cup {[kind |-> "package review", parsable |-> FALSE, content |-> [garbage |-> TRUE],
           signature |-> Sign([garbage |-> TRUE])],
          [kind |-> "unknown kind", parsable |-> TRUE, content |-> [garbage |-> FALSE],
           signature |-> Sign([garbage |-> FALSE])]}

DeclaresUrl(proof) ==
    /\ proof.kind \in {"code review", "package review", "trust"}
    /\ proof.parsable
    /\ IsSome(proof.content.from.url)

\* the repository of the author: at the URL the proof declares, or the local user's
OwnRepo(proof) ==
    IF DeclaresUrl(proof) THEN FetchUrl(proof.content.from.url[1]) ELSE LocalUser

\* every proof as fetched from its author's repository, and the code reviews that
\* declare a URL as fetched from anywhere
Inputs ==
    {<<p, OwnRepo(p)>> : p \in Proofs}
    \cup {<<p, f>> \in Proofs \X FetchSources : p.kind = "code review" /\ DeclaresUrl(p)}

----------------------------------------------------------------------------
(* Values of the variables a specification does not use *)

IdleStore ==
    /\ db = ProofDB_new
    /\ derived_alternatives = AlternativesData_new
    /\ ingested = << >>
    /\ queried = FALSE

IdleOrder ==
    /\ db2 = ProofDB_new
    /\ pool = {}
    /\ pool2 = {}

IdleTrust ==
    /\ for_id = 0
    /\ params = << >>
    /\ pc = "idle"
    /\ distrusted = EmptyMap
    /\ prev_distrusted_len = 0
    /\ pending = {}
    /\ current_trust_set = << >>
    /\ initial_distrusted_len = 0
    /\ previous_iter_trust_level = High
    /\ trust_set = << >>
    /\ current = NoneOpt
    /\ passes = 0

\* no query was made, or its answer was dropped
NoAnswer == [op |-> "none"]

IdleIssues == answer = NoAnswer

IdleReaders ==
    /\ lock = << >>
    /\ tpc = << >>
    /\ guard = << >>

IdleRest == IdleIssues /\ IdleReaders

----------------------------------------------------------------------------
(* Spec: ingestion and alternatives queries on one store *)

Init ==
    /\ db = ProofDB_new
    /\ derived_alternatives = AlternativesData_new
    /\ ingested = << >>
    /\ queried = FALSE
    /\ IdleOrder
    /\ IdleTrust
    /\ IdleRest

\* one iteration of import_from_iter: add_proof, its error ignored
ImportProof ==
    /\ Len(ingested) < MaxProofs
    /\ \E in \in Inputs :
        /\ db' = add_proof(db, in[1], in[2]).db
        /\ ingested' = Append(ingested, [proof |-> in[1], fetched_from |-> in[2]])
    /\ queried' = FALSE
    /\ UNCHANGED <<derived_alternatives, orderVars, trustVars>>
    /\ UNCHANGED restVars

\* get_pkg_alternatives / get_pkg_alternatives_by_author: get_derived_alternatives
\* brings the derived index up to date, the caller reads for_pkg
QueryAlternatives ==
    /\ \E ord \in Orders(AlternativesKeys(db)) :
        derived_alternatives' = get_derived_alternatives(db, derived_alternatives, ord)
    /\ queried' = TRUE
    /\ UNCHANGED <<db, ingested, orderVars, trustVars>>
    /\ UNCHANGED restVars

Next == ImportProof \/ QueryAlternatives

Spec == Init /\ [][Next]_vars

----------------------------------------------------------------------------
(* What the ingested proofs say, per index and key, and what the store holds *)

Accepted(proof) ==
    proof.kind \in {"code review", "package review", "trust"} /\ proof.parsable

Entry(key, date, value) == [key |-> key, date |-> date, value |-> value]

\* the entries one proof contributes to each timestamped index
TrustContrib(proof) ==
    IF Accepted(proof) /\ proof.kind = "trust"
    THEN {Entry(<<proof.content.from.id, proof.content.ids[j].id>>,
                proof.content.date, proof.content.trust) :
             j \in 1..Len(proof.content.ids)}
    ELSE {}

SignatureByIdContrib(proof) ==
    IF Accepted(proof) /\ proof.kind = "package review"
    THEN {Entry(PkgVersionReviewId(proof.content), proof.content.date, proof.signature)}
    ELSE {}

SignatureByDigestContrib(proof) ==
    IF Accepted(proof) /\ proof.kind = "package review"
    THEN {Entry(<<proof.content.package.digest, PkgVersionReviewId(proof.content)>>,
                proof.content.date, proof.signature)}
    ELSE {}

AlternativesContrib(proof) ==
    IF Accepted(proof) /\ proof.kind = "package review"
    THEN {Entry(<<proof.content.package.id.id, proof.content.from.id>>,
                proof.content.date, proof.signature)}
    ELSE {}

FlagsContrib(proof) ==
    IF Accepted(proof) /\ proof.kind = "package review"
    THEN {Entry(<<proof.content.package.id.id, proof.content.from.id>>,
                proof.content.date, proof.content.flags)}
    ELSE {}

UrlSelfContrib(proof) ==
    IF DeclaresUrl(proof)
    THEN {Entry(proof.content.from.id, proof.content.date, proof.content.from.url[1])}
    ELSE {}

\* the entries an index of the store holds
Nested(m) ==
    UNION {{Entry(<<a, b>>, m[a][b].date, m[a][b].value) : b \in DOMAIN m[a]} :
              a \in DOMAIN m}

TrustEntries(d) == Nested(d.trust_id_to_id)
SignatureByIdEntries(d) ==
    {Entry(k, d.package_review_signatures_by_pkg_review_id[k].date,
           d.package_review_signatures_by_pkg_review_id[k].value) :
        k \in DOMAIN d.package_review_signatures_by_pkg_review_id}
SignatureByDigestEntries(d) == Nested(d.package_review_signatures_by_package_digest)
AlternativesEntries(d) == Nested(d.package_alternatives)
FlagsEntries(d) == Nested(d.package_flags)
UrlSelfEntries(d) ==
    {Entry(k, d.url_by_id_self_reported[k][1].date, d.url_by_id_self_reported[k][1].value) :
        k \in DOMAIN d.url_by_id_self_reported}

History(i) == ingested[i].proof

\* the entries hold, per key, the greatest date ingested and the value of a proof of that date
MaxDateHeld(entries, contribs) ==
    /\ {e.key : e \in entries} = {c.key : c \in contribs}
    /\ \A e \in entries :
        /\ e \in contribs
        /\ \A c \in contribs : c.key = e.key => c.date <= e.date

\* a proof older than the stored entry of its key leaves that entry as it was
OlderKept(before, after, new) ==
    \A c \in new : \A e \in before : (e.key = c.key /\ c.date < e.date) => e \in after

\* the merge rule: a proof at least as recent as the stored entry of its key replaces
\* date and value, an older one changes nothing
MergeRule(before, after, new) ==
    \A c \in new : \A e \in before :
        e.key = c.key =>
            IF c.date >= e.date THEN c \in after /\ (e = c \/ e \notin after)
            ELSE e \in after /\ c \notin after

Ingesting == Len(ingested') = Len(ingested) + 1
Newest == ingested'[Len(ingested')].proof

\* C5: every timestamped index (trust_id_to_id, package_review_signatures_by_pkg_review_id,
\* package_review_signatures_by_package_digest, package_alternatives, package_flags,
\* url_by_id_self_reported) holds per key the greatest date among the proofs ingested
\* for that key together with the value of a proof of that date, and a proof older
\* than the stored entry leaves the entry unchanged.
C5_Monotonicity ==
    [][IF Ingesting
       THEN /\ MaxDateHeld(TrustEntries(db'),
                           UNION {TrustContrib(History(i)') : i \in 1..Len(ingested')})
            /\ MaxDateHeld(SignatureByIdEntries(db'),
                           UNION {SignatureByIdContrib(History(i)') : i \in 1..Len(ingested')})
            /\ MaxDateHeld(SignatureByDigestEntries(db'),
                           UNION {SignatureByDigestContrib(History(i)') :
                                     i \in 1..Len(ingested')})
            /\ MaxDateHeld(AlternativesEntries(db'),
                           UNION {AlternativesContrib(History(i)') : i \in 1..Len(ingested')})
            /\ MaxDateHeld(FlagsEntries(db'),
                           UNION {FlagsContrib(History(i)') : i \in 1..Len(ingested')})
            /\ MaxDateHeld(UrlSelfEntries(db'),
                           UNION {UrlSelfContrib(History(i)') : i \in 1..Len(ingested')})
            /\ OlderKept(TrustEntries(db), TrustEntries(db'), TrustContrib(Newest))
            /\ OlderKept(SignatureByIdEntries(db), SignatureByIdEntries(db'),
                         SignatureByIdContrib(Newest))
            /\ OlderKept(SignatureByDigestEntries(db), SignatureByDigestEntries(db'),
                         SignatureByDigestContrib(Newest))
            /\ OlderKept(AlternativesEntries(db), AlternativesEntries(db'),
                         AlternativesContrib(Newest))
            /\ OlderKept(FlagsEntries(db), FlagsEntries(db'), FlagsContrib(Newest))
            /\ OlderKept(UrlSelfEntries(db), UrlSelfEntries(db'), UrlSelfContrib(Newest))
       ELSE db' = db /\ ingested' = ingested
      ]_vars

\* an older trust proof was ingested after a newer one for the same edge, and the
\* edge holds the newer one
C5_Witness ==
    /\ Len(ingested) = 2
    /\ \E c1 \in TrustContrib(History(1)), c2 \in TrustContrib(History(2)) :
        /\ c1.key = c2.key
        /\ c2.date < c1.date
        /\ c2.value # c1.value
        /\ c1 \in TrustEntries(db)

\* C7: update_to_more_recent replaces date and value by the other's iff the other's
\* date is >= the stored date and changes nothing otherwise, in every index that
\* merges with it; of two proofs of equal date for one key the later-ingested is stored.
C7_MergeRule ==
    [][Ingesting =>
        /\ MergeRule(TrustEntries(db), TrustEntries(db'), TrustContrib(Newest))
        /\ MergeRule(SignatureByIdEntries(db), SignatureByIdEntries(db'),
                     SignatureByIdContrib(Newest))
        /\ MergeRule(SignatureByDigestEntries(db), SignatureByDigestEntries(db'),
                     SignatureByDigestContrib(Newest))
        /\ MergeRule(AlternativesEntries(db), AlternativesEntries(db'),
                     AlternativesContrib(Newest))
        /\ MergeRule(FlagsEntries(db), FlagsEntries(db'), FlagsContrib(Newest))
        /\ MergeRule(UrlSelfEntries(db), UrlSelfEntries(db'), UrlSelfContrib(Newest))
      ]_vars

\* two package reviews of one (author, package version) carry the same date and
\* different flags; the flags of the second are stored
C7_Witness ==
    /\ Len(ingested) = 2
    /\ \E c1 \in FlagsContrib(History(1)), c2 \in FlagsContrib(History(2)) :
        /\ c1.key = c2.key
        /\ c1.date = c2.date
        /\ c1.value # c2.value
        /\ c2 \in FlagsEntries(db)
        /\ c1 \notin FlagsEntries(db)

\* the packages an alternatives query can be asked about or can return
KnownPackages ==
    Packages \cup DOMAIN derived_alternatives.for_pkg

\* the review package_alternatives refers to for (pkg, author)
CurrentReview(d, key) ==
    d.package_review_by_signature[d.package_alternatives[key[1]][key[2]].value]

\* C8: after a query, B is among author a's alternatives of A iff A is among a's
\* alternatives of B; and each review package_alternatives refers to, of package P1
\* by U with alternative P2, makes (U, P2) an alternative of P1 and (U, P1) one of P2.
C8_AlternativesSymmetry ==
    queried =>
        /\ \A a \in StoreIds : \A A \in KnownPackages, B \in KnownPackages :
              B \in get_pkg_alternatives_by_author(derived_alternatives, a, A)
                  <=> A \in get_pkg_alternatives_by_author(derived_alternatives, a, B)
        /\ \A key \in AlternativesKeys(db) :
              \A P2 \in CurrentReview(db, key).alternatives :
                  /\ <<key[2], P2>> \in get_pkg_alternatives(derived_alternatives, key[1])
                  /\ <<key[2], key[1]>> \in get_pkg_alternatives(derived_alternatives, P2)

\* a review with an alternative was ingested and the index was queried
C8_Witness ==
    /\ queried
    /\ \E key \in AlternativesKeys(db) : CurrentReview(db, key).alternatives # {}
    /\ \E A \in Packages, B \in Packages :
        A # B /\ <<1, B>> \in get_pkg_alternatives(derived_alternatives, A)

\* the alternatives of A by author a that follow from package_alternatives
ExpectedAlternatives(d, a, A) ==
    {B \in Packages :
        \E key \in AlternativesKeys(d) :
            /\ key[2] = a
            /\ \/ key[1] = A /\ B \in CurrentReview(d, key).alternatives
               \/ key[1] = B /\ A \in CurrentReview(d, key).alternatives}

\* C9: every alternatives query answers with exactly the symmetric pairs that follow
\* from the current package_alternatives, and leaves the derived counter equal to
\* insertion_counter; an index whose counter already matches is served as it is.
C9_NoStaleAlternatives ==
    [][queried' =>
        /\ derived_alternatives'.derived_recalculation_counter = db'.insertion_counter
        /\ DOMAIN derived_alternatives'.for_pkg \subseteq Packages
        /\ \A a \in StoreIds : \A A \in Packages :
              get_pkg_alternatives_by_author(derived_alternatives', a, A)
                  = ExpectedAlternatives(db', a, A)
        /\ \A A \in Packages :
              get_pkg_alternatives(derived_alternatives', A)
                  = {<<a, B>> \in StoreIds \X Packages : B \in ExpectedAlternatives(db', a, A)}
        /\ derived_alternatives.derived_recalculation_counter = db.insertion_counter
              => derived_alternatives' = derived_alternatives
      ]_vars

\* a queried alternative was withdrawn by a newer review of the same author and
\* package, and the next query no longer reports it
C9_Witness ==
    /\ queried
    /\ Len(ingested) = 2
    /\ \E c1 \in AlternativesContrib(History(1)), c2 \in AlternativesContrib(History(2)) :
        /\ c1.key = c2.key
        /\ c1.date < c2.date
        /\ History(1).content.alternatives # {}
        /\ History(2).content.alternatives = {}
        /\ get_pkg_alternatives(derived_alternatives, c1.key[1]) = {}
    /\ derived_alternatives.derived_recalculation_counter = 2

\* C10: insertion_counter counts the package reviews ingested: it goes up by one with
\* each of them and is left alone by trust proofs, code reviews, rejected proofs and
\* queries.
C10_InsertionCounter ==
    [][/\ db'.insertion_counter =
            Cardinality({i \in 1..Len(ingested') :
                            Accepted(History(i)') /\ History(i)'.kind = "package review"})
       /\ db'.insertion_counter =
            IF Ingesting /\ Accepted(Newest) /\ Newest.kind = "package review"
            THEN db.insertion_counter + 1
            ELSE db.insertion_counter
      ]_vars

\* a package review and a proof of another kind were ingested, with a query
C10_Witness ==
    /\ Len(ingested) = 2
    /\ queried
    /\ db.insertion_counter = 1
    /\ \E i \in 1..2 : History(i).kind = "package review" /\ ~History(i).parsable

\* the proof of an ingestion was fetched from the local user or from the URL it declares
FetchedFromOwnUrl(in) ==
    /\ DeclaresUrl(in.proof)
    /\ \/ in.fetched_from = LocalUser
       \/ in.fetched_from = FetchUrl(in.proof.content.from.url[1])

\* the verified flag of url_by_id_self_reported[id]
Verified(d, id) ==
    id \in DOMAIN d.url_by_id_self_reported /\ d.url_by_id_self_reported[id][2]

\* C11: the verified flag of an id is set exactly when some ingested proof of that id
\* declaring a URL came from the local user or from the URL it declares; once set it
\* stays set under every later step and lookup_url answers FromSelfVerified.
C11_VerifiedFlag ==
    /\ [](\A id \in StoreIds :
            Verified(db, id) <=>
                \E i \in 1..Len(ingested) :
                    /\ FetchedFromOwnUrl(ingested[i])
                    /\ History(i).content.from.id = id)
    /\ [][\A id \in StoreIds :
            Verified(db, id) =>
                Verified(db', id) /\ lookup_url(db', id)[1] = "FromSelfVerified"]_vars

\* id 2 was verified by its first proof; its second proof declares a URL and came from
\* another place
C11_Witness ==
    /\ Len(ingested) = 2
    /\ FetchedFromOwnUrl(ingested[1])
    /\ History(1).content.from.id = 2
    /\ DeclaresUrl(History(2))
    /\ History(2).content.from.id = 2
    /\ ~FetchedFromOwnUrl(ingested[2])
    /\ lookup_url(db, 2)[1] = "FromSelfVerified"

\* a trust proof of an author other than id names id with this URL in its subject list
AttributedByOthers(hist, id, url) ==
    \E i \in 1..Len(hist) :
        /\ Accepted(hist[i].proof)
        /\ hist[i].proof.kind = "trust"
        /\ hist[i].proof.content.from.id # id
        /\ \E j \in 1..Len(hist[i].proof.content.ids) :
              hist[i].proof.content.ids[j] = PublicId(id, Some(url))

\* C12: lookup_url answers the self-reported URL of an id that has one (FromSelfVerified
\* when the flag is set, FromSelf otherwise), FromOthers only for an id without a
\* self-reported URL to which a trust proof of another author attributed the URL
\* answered, and None otherwise; a trust proof leaves the self-reported entry and the
\* flag of every id other than its author as they were.
C12_LookupUrl ==
    /\ [](\A id \in StoreIds :
            LET r == lookup_url(db, id)
                self == db.url_by_id_self_reported
            IN IF id \in DOMAIN self
               THEN r = <<IF self[id][2] THEN "FromSelfVerified" ELSE "FromSelf",
                          self[id][1].value>>
               ELSE IF \E u \in Urls : AttributedByOthers(ingested, id, u)
               THEN r[1] = "FromOthers" /\ AttributedByOthers(ingested, id, r[2])
               ELSE r = <<"None">>)
    /\ [][(Ingesting /\ Accepted(Newest) /\ Newest.kind = "trust") =>
            \A id \in StoreIds \ {Newest.content.from.id} :
                /\ (id \in DOMAIN db'.url_by_id_self_reported) =
                       (id \in DOMAIN db.url_by_id_self_reported)
                /\ id \in DOMAIN db.url_by_id_self_reported =>
                       db'.url_by_id_self_reported[id] = db.url_by_id_self_reported[id]
         ]_vars

\* import_from_iter on a whole stream of (proof, fetch source) pairs
RECURSIVE import_from_iter(_, _, _)
import_from_iter(d, stream, i) ==
    IF i > Len(stream) THEN d
    ELSE import_from_iter(add_proof(d, stream[i].proof, stream[i].fetched_from).db,
                          stream, i + 1)

AcceptedInput(in) == Accepted(in.proof)

\* C18: add_proof answers UnknownProofType to a proof of unrecognised kind and a Data
\* error to unparsable content and leaves the store as it was; the proofs after it are
\* ingested all the same, so the store is the one the accepted proofs of the stream
\* give alone.
C18_ImportContinues ==
    /\ [](db = import_from_iter(ProofDB_new, SelectSeq(ingested, AcceptedInput), 1))
    /\ [][Ingesting =>
            LET last == ingested'[Len(ingested')]
                res == add_proof(db, last.proof, last.fetched_from).res
            IN IF Accepted(last.proof)
               THEN res = "Ok"
               ELSE /\ db' = db
                    /\ res = IF last.proof.kind = "unknown kind"
                             THEN "UnknownProofType" ELSE "Data"]_vars

\* a rejected proof came first, a package review after it was ingested
C18_Witness ==
    /\ Len(ingested) = 2
    /\ ~Accepted(History(1))
    /\ Accepted(History(2))
    /\ History(2).kind = "package review"
    /\ db.insertion_counter = 1
    /\ db = add_proof(ProofDB_new, History(2), ingested[2].fetched_from).db

----------------------------------------------------------------------------
(* SpecOrder: one set of proofs ingested into two stores, each in an order of its own *)

UrlOthersContrib(proof) ==
    IF Accepted(proof) /\ proof.kind = "trust"
    THEN {Entry(proof.content.ids[j].id, proof.content.date, proof.content.ids[j].url[1]) :
             j \in {i \in 1..Len(proof.content.ids) : IsSome(proof.content.ids[i].url)}}
    ELSE {}

DistinctDates(c1, c2) == \A x \in c1, y \in c2 : x.key = y.key => x.date # y.date

\* no two proofs of S speak about one key of one index with the same date
DistinctTimestampsPerKey(S) ==
    \A in1 \in S, in2 \in S :
        in1 # in2 =>
            /\ DistinctDates(TrustContrib(in1[1]), TrustContrib(in2[1]))
            /\ DistinctDates(SignatureByIdContrib(in1[1]), SignatureByIdContrib(in2[1]))
            /\ DistinctDates(SignatureByDigestContrib(in1[1]), SignatureByDigestContrib(in2[1]))
            /\ DistinctDates(AlternativesContrib(in1[1]), AlternativesContrib(in2[1]))
            /\ DistinctDates(FlagsContrib(in1[1]), FlagsContrib(in2[1]))
            /\ DistinctDates(UrlSelfContrib(in1[1]), UrlSelfContrib(in2[1]))
            /\ DistinctDates(UrlOthersContrib(in1[1]), UrlOthersContrib(in2[1]))

\* the sets of one to MaxOrderProofs proofs
ProofSets ==
    {S \in {{f[i] : i \in 1..MaxOrderProofs} : f \in [1..MaxOrderProofs -> Inputs]} :
        DistinctTimestampsPerKey(S)}

InitOrder ==
    /\ db = ProofDB_new
    /\ db2 = ProofDB_new
    /\ \E S \in ProofSets : pool = S /\ pool2 = S
    /\ derived_alternatives = AlternativesData_new
    /\ ingested = << >>
    /\ queried = FALSE
    /\ IdleTrust
    /\ IdleRest

\* add_proof on the first store
AddFirst ==
    /\ \E in \in pool :
        /\ db' = add_proof(db, in[1], in[2]).db
        /\ pool' = pool \ {in}
    /\ UNCHANGED <<db2, pool2, derived_alternatives, ingested, queried, trustVars>>
    /\ UNCHANGED restVars

\* add_proof on the second store
AddSecond ==
    /\ \E in \in pool2 :
        /\ db2' = add_proof(db2, in[1], in[2]).db
        /\ pool2' = pool2 \ {in}
    /\ UNCHANGED <<db, pool, derived_alternatives, ingested, queried, trustVars>>
    /\ UNCHANGED restVars

NextOrder == AddFirst \/ AddSecond

SpecOrder == InitOrder /\ [][NextOrder]_vars

unique_package_review_proof_count(d) ==
    Cardinality(DOMAIN d.package_review_signatures_by_pkg_review_id)

unique_trust_proof_count(d) == Cardinality(TrustEntries(d))

all_known_ids(d) ==
    (DOMAIN d.url_by_id_self_reported) \cup (DOMAIN d.url_by_id_reported_by_others)

get_pkg_review_by_pkg_review_id(d, uniq) ==
    d.package_review_by_signature[d.package_review_signatures_by_pkg_review_id[uniq].value]

get_package_reviews_by_digest(d, digest) ==
    IF digest \in DOMAIN d.package_review_signatures_by_package_digest
    THEN {d.package_review_by_signature[
              d.package_review_signatures_by_package_digest[digest][k].value] :
            k \in DOMAIN d.package_review_signatures_by_package_digest[digest]}
    ELSE {}

get_pkg_flags(d, pkg_id) ==
    IF pkg_id \in DOMAIN d.package_flags
    THEN {<<id, d.package_flags[pkg_id][id].value>> : id \in DOMAIN d.package_flags[pkg_id]}
    ELSE {}

get_trust_list_of_id(d, id) ==
    IF id \in DOMAIN d.trust_id_to_id
    THEN {<<d.trust_id_to_id[id][to].value, to>> : to \in DOMAIN d.trust_id_to_id[id]}
    ELSE {}

\* what the public queries answer on a store
Answers(d) ==
    [lookup_url |-> [i \in StoreIds |-> lookup_url(d, i)],
     trust |-> [i \in StoreIds |-> get_trust_list_of_id(d, i)],
     known |-> all_known_ids(d),
     reviews |-> {get_pkg_review_by_pkg_review_id(d, u) :
                     u \in DOMAIN d.package_review_signatures_by_pkg_review_id},
     package_reviews |-> d.package_reviews,
     by_digest |-> [p \in Packages |-> get_package_reviews_by_digest(d, DigestOf(p))],
     flags |-> [p \in Packages |-> get_pkg_flags(d, p)],
     alternatives |->
        [p \in Packages |->
            get_pkg_alternatives(
                get_derived_alternatives(d, [AlternativesData_new EXCEPT
                                                !.derived_recalculation_counter = -1],
                    CHOOSE ord \in Orders(AlternativesKeys(d)) : TRUE),
                p)],
     counts |-> <<unique_package_review_proof_count(d), unique_trust_proof_count(d)>>]

\* C6: the two stores, having ingested the same proofs (of pairwise distinct dates per
\* key) in their own orders, answer every public query alike.
C6_OrderIndependence ==
    (pool = {} /\ pool2 = {}) => Answers(db) = Answers(db2)

----------------------------------------------------------------------------
(* Claims about package_alternatives and the stored URLs *)

\* the ingested package reviews of (pkg, author) that declare alternatives
BearingReviews(hist, key) ==
    {hist[i].proof.content :
        i \in {j \in 1..Len(hist) :
                 /\ Accepted(hist[j].proof)
                 /\ hist[j].proof.kind = "package review"
                 /\ hist[j].proof.content.package.id.id = key[1]
                 /\ hist[j].proof.content.from.id = key[2]
                 /\ hist[j].proof.content.alternatives # {}}}

\* C27: for every package and author with an ingested review that declares
\* alternatives, package_alternatives refers to the latest-dated of these reviews, also
\* when a later-dated review of the pair declares none, and a query reports the
\* alternatives that review declares.
C27_NewestAlternativesBearing ==
    \A key \in Packages \X StoreIds :
        BearingReviews(ingested, key) # {} =>
            /\ key \in AlternativesKeys(db)
            /\ CurrentReview(db, key) \in BearingReviews(ingested, key)
            /\ \A r \in BearingReviews(ingested, key) : r.date <= CurrentReview(db, key).date
            /\ queried =>
                 /\ get_pkg_alternatives_by_author(derived_alternatives, key[2], key[1]) # {}
                 /\ CurrentReview(db, key).alternatives \subseteq
                        get_pkg_alternatives_by_author(derived_alternatives, key[2], key[1])

\* the entries url_by_id_reported_by_others holds
UrlOthersEntries(d) ==
    {Entry(k, d.url_by_id_reported_by_others[k].date, d.url_by_id_reported_by_others[k].value) :
        k \in DOMAIN d.url_by_id_reported_by_others}

\* C28: url_by_id_reported_by_others holds per id the URL and the date of the
\* latest-dated trust proof naming the id with a URL; a later-dated attribution
\* replaces the stored one and an earlier-dated one leaves it.
C28_LatestUrlByOthers ==
    /\ [](MaxDateHeld(UrlOthersEntries(db),
                      UNION {UrlOthersContrib(History(i)) : i \in 1..Len(ingested)}))
    /\ [][Ingesting =>
            \A c \in UrlOthersContrib(Newest) : \A e \in UrlOthersEntries(db) :
                e.key = c.key =>
                    /\ c.date > e.date => c \in UrlOthersEntries(db')
                    /\ c.date < e.date => e \in UrlOthersEntries(db')]_vars

\* C29: an id for which lookup_url answers FromSelfVerified(u) is the author of an
\* ingested proof that declares the URL u and was fetched from the local user or
\* from u.
C29_FromSelfVerifiedSound ==
    \A id \in StoreIds :
        lookup_url(db, id)[1] = "FromSelfVerified" =>
            \E i \in 1..Len(ingested) :
                /\ FetchedFromOwnUrl(ingested[i])
                /\ History(i).content.from.id = id
                /\ History(i).content.from.url[1] = lookup_url(db, id)[2]

\* the PkgVersionReviewIds stored in package_reviews
StoredReviewIds(d) ==
    UNION {UNION {UNION {d.package_reviews[src][n][v] :
                            v \in DOMAIN d.package_reviews[src][n]} :
                     n \in DOMAIN d.package_reviews[src]} :
              src \in DOMAIN d.package_reviews}

\* the signatures stored in package_review_signatures_by_pkg_review_id,
\* package_review_signatures_by_package_digest and package_alternatives
StoredSignatures(d) ==
    {e.value : e \in SignatureByIdEntries(d)}
        \cup {e.value : e \in SignatureByDigestEntries(d)}
        \cup {e.value : e \in AlternativesEntries(d)}

\* C34: after any sequence of ingested proofs every PkgVersionReviewId stored in
\* package_reviews is a key of package_review_signatures_by_pkg_review_id, every
\* signature stored in that index, in the index by digest and in package_alternatives
\* is a key of package_review_by_signature (so the lookups of the queries find their
\* keys), and an ingestion never removes or replaces a review stored under a signature.
C34_IndexIntegrity ==
    /\ [](/\ StoredReviewIds(db)
                \subseteq DOMAIN db.package_review_signatures_by_pkg_review_id
          /\ StoredSignatures(db) \subseteq DOMAIN db.package_review_by_signature)
    /\ [][\A sig \in DOMAIN db.package_review_by_signature :
            /\ sig \in DOMAIN db'.package_review_by_signature
            /\ db'.package_review_by_signature[sig] = db.package_review_by_signature[sig]]_vars

\* two reviews of one package version by one author are ingested: one
\* PkgVersionReviewId is stored with the signature of the later review, and both
\* reviews are stored under their signatures
C34_Witness ==
    /\ Len(ingested) = 2
    /\ Cardinality(DOMAIN db.package_review_by_signature) = 2
    /\ Cardinality(StoredReviewIds(db)) = 1
    /\ \A u \in StoredReviewIds(db) :
          /\ get_pkg_review_by_pkg_review_id(db, u).date = 2
          /\ History(2).content.date = 1

----------------------------------------------------------------------------
(* TrustDistanceParams *)

TrustDistanceParams(max, high, medium, low) ==
    [max_distance |-> max, high_trust_distance |-> high,
     medium_trust_distance |-> medium, low_trust_distance |-> low]

\* mutation: a High edge costs nothing, as in the default parameters
new_no_wot_free_high == TrustDistanceParams(0, 0, 1, 1)

new_no_wot == TrustDistanceParams(0, 1, 1, 1)

TrustDistanceParams_default == TrustDistanceParams(10, 0, 1, 5)

\* mutation: the distances of Low and Medium are exchanged
distance_by_level_swapped(self, level) ==
    IF level = Low THEN Some(self.medium_trust_distance)
    ELSE IF level = Medium THEN Some(self.low_trust_distance)
    ELSE IF level = High THEN Some(self.high_trust_distance)
    ELSE NoneOpt

distance_by_level(self, level) ==
    IF level = Low THEN Some(self.low_trust_distance)
    ELSE IF level = Medium THEN Some(self.medium_trust_distance)
    ELSE IF level = High THEN Some(self.high_trust_distance)
    ELSE NoneOpt

----------------------------------------------------------------------------
(* TrustSet *)

TrustSet_default == [trusted |-> EmptyMap, distrusted |-> EmptyMap]

is_trusted(self, id) == id \in DOMAIN self.trusted

\* mutation: a banned id is not recognised
is_distrusted_never(self, id) == FALSE

is_distrusted(self, id) == id \in DOMAIN self.distrusted

\* mutation: the ban is not recorded
record_distrusted_id_dropped(self, subject, reported_by) ==
    [ts |-> self, res |-> FALSE]

\* the TrustSet afterwards and the returned bool
record_distrusted_id(self, subject, reported_by) ==
    [ts |-> [trusted |-> Remove(self.trusted, subject),
             distrusted |->
                Put(self.distrusted, subject,
                    [reported_by |->
                        GetOr(self.distrusted, subject, [reported_by |-> {}]).reported_by
                            \cup {reported_by}])],
     res |-> subject \in DOMAIN self.trusted]

\* mutation: the returned bool is always true, also when the details did not change
record_trusted_id_always_changed(self, subject, reported_by, distance, effective_trust_level) ==
    IF subject \notin DOMAIN self.trusted
    THEN [ts |-> [self EXCEPT !.trusted =
                    Put(@, subject,
                        [distance |-> distance,
                         effective_trust_level |-> effective_trust_level,
                         reported_by |-> Put(EmptyMap, reported_by, effective_trust_level)])],
          res |-> TRUE,
          failed |-> ~(effective_trust_level >= NoneLevel)]
    ELSE LET details == self.trusted[subject]
             d1 == IF details.distance > distance
                   THEN [details EXCEPT !.distance = distance] ELSE details
             d2 == IF d1.effective_trust_level < effective_trust_level
                   THEN [d1 EXCEPT !.effective_trust_level = effective_trust_level] ELSE d1
             newer == \/ reported_by \notin DOMAIN details.reported_by
                      \/ details.reported_by[reported_by] < effective_trust_level
             d3 == IF newer
                   THEN [d2 EXCEPT !.reported_by = Put(@, reported_by, effective_trust_level)]
                   ELSE d2
         IN [ts |-> [self EXCEPT !.trusted = Put(@, subject, d3)],
             res |-> TRUE,
             failed |-> ~(effective_trust_level >= NoneLevel)]

\* the TrustSet afterwards and the returned bool; `failed` is the assertion
\* effective_trust_level >= TrustLevel::None
record_trusted_id(self, subject, reported_by, distance, effective_trust_level) ==
    IF subject \notin DOMAIN self.trusted
    THEN [ts |-> [self EXCEPT !.trusted =
                    Put(@, subject,
                        [distance |-> distance,
                         effective_trust_level |-> effective_trust_level,
                         reported_by |-> Put(EmptyMap, reported_by, effective_trust_level)])],
          res |-> TRUE,
          failed |-> ~(effective_trust_level >= NoneLevel)]
    ELSE LET details == self.trusted[subject]
             d1 == IF details.distance > distance
                   THEN [details EXCEPT !.distance = distance] ELSE details
             d2 == IF d1.effective_trust_level < effective_trust_level
                   THEN [d1 EXCEPT !.effective_trust_level = effective_trust_level] ELSE d1
             newer == \/ reported_by \notin DOMAIN details.reported_by
                      \/ details.reported_by[reported_by] < effective_trust_level
             d3 == IF newer
                   THEN [d2 EXCEPT !.reported_by = Put(@, reported_by, effective_trust_level)]
                   ELSE d2
         IN [ts |-> [self EXCEPT !.trusted = Put(@, subject, d3)],
             res |-> d3 # details,
             failed |-> ~(effective_trust_level >= NoneLevel)]

get_effective_trust_level_opt(self, id) ==
    IF id \in DOMAIN self.trusted THEN Some(self.trusted[id].effective_trust_level)
    ELSE IF id \in DOMAIN self.distrusted THEN Some(Distrust)
    ELSE NoneOpt

get_effective_trust_level(self, id) ==
    IF IsSome(get_effective_trust_level_opt(self, id))
    THEN get_effective_trust_level_opt(self, id)[1]
    ELSE NoneLevel

----------------------------------------------------------------------------
(* calculate_trust_set_internal *)

Visit(effective_trust_level, distance, id) ==
    [effective_trust_level |-> effective_trust_level, distance |-> distance, id |-> id]

\* #[derive(PartialOrd, Ord)] on Visit: the fields compared in their order
VisitLess(a, b) ==
    \/ a.effective_trust_level < b.effective_trust_level
    \/ /\ a.effective_trust_level = b.effective_trust_level
       /\ \/ a.distance < b.distance
          \/ a.distance = b.distance /\ a.id < b.id

\* pending.iter().next(): the least element of the BTreeSet
FirstPending(pend) == CHOOSE v \in pend : \A w \in pend : w = v \/ VisitLess(v, w)

\* mutation: the root is not seeded when it arrives banned
SeedTrustSet_unless_banned(distrusted_in, root) ==
    IF root \in DOMAIN distrusted_in
    THEN [TrustSet_default EXCEPT !.distrusted = distrusted_in]
    ELSE record_trusted_id([TrustSet_default EXCEPT !.distrusted = distrusted_in],
                           root, root, 0, High).ts

\* mutation: the bans handed over by the previous pass are dropped
SeedTrustSet_forgetting(distrusted_in, root) ==
    record_trusted_id(TrustSet_default, root, root, 0, High).ts

\* current_trust_set before the loop: the bans handed over and the root, trusted
SeedTrustSet(distrusted_in, root) ==
    record_trusted_id([TrustSet_default EXCEPT !.distrusted = distrusted_in],
                      root, root, 0, High).ts

\* mutation: no candidate is beyond max_distance
exceeds_max_distance_never(candidate_total_distance, prm) == FALSE

\* candidate_total_distance > params.max_distance
exceeds_max_distance(candidate_total_distance, prm) ==
    candidate_total_distance > prm.max_distance

\* mutation: an edge of level Distrust is not set apart, it is handled as a trust edge
VisitEdge_without_distrust_branch(st, cur, direct_trust, candidate_id, prm) ==
    IF is_distrusted(st.ts, candidate_id) THEN st
    ELSE LET effective_trust_level == MinLevel(direct_trust, cur.effective_trust_level)
             by_level == distance_by_level(prm, effective_trust_level)
         IN IF effective_trust_level = NoneLevel THEN st
            ELSE IF effective_trust_level < NoneLevel THEN [st EXCEPT !.failed = TRUE]
            ELSE IF ~IsSome(by_level) THEN st
            ELSE LET candidate_total_distance == cur.distance + by_level[1]
                     rec == record_trusted_id(st.ts, candidate_id, cur.id,
                                              candidate_total_distance,
                                              effective_trust_level)
                 IN IF exceeds_max_distance(candidate_total_distance, prm) THEN st
                    ELSE [ts |-> rec.ts,
                          pending |->
                            IF rec.res
                            THEN st.pending \cup {Visit(effective_trust_level,
                                                        candidate_total_distance,
                                                        candidate_id)}
                            ELSE st.pending,
                          failed |-> st.failed \/ rec.failed]

\* the body of the loop over the trust list of current.id, for one edge; st holds
\* current_trust_set, pending and whether an assertion or unreachable! was hit
VisitEdge(st, cur, direct_trust, candidate_id, prm) ==
    IF is_distrusted(st.ts, candidate_id) THEN st
    ELSE IF direct_trust = Distrust
    THEN [st EXCEPT !.ts = record_distrusted_id(st.ts, candidate_id, cur.id).ts]
    ELSE LET effective_trust_level == MinLevel(direct_trust, cur.effective_trust_level)
             by_level == distance_by_level(prm, effective_trust_level)
         IN IF effective_trust_level = NoneLevel THEN st
            ELSE IF effective_trust_level < NoneLevel THEN [st EXCEPT !.failed = TRUE]
            ELSE IF ~IsSome(by_level) THEN st
            ELSE LET candidate_total_distance == cur.distance + by_level[1]
                     rec == record_trusted_id(st.ts, candidate_id, cur.id,
                                              candidate_total_distance,
                                              effective_trust_level)
                 IN IF exceeds_max_distance(candidate_total_distance, prm) THEN st
                    ELSE [ts |-> rec.ts,
                          pending |->
                            IF rec.res
                            THEN st.pending \cup {Visit(effective_trust_level,
                                                        candidate_total_distance,
                                                        candidate_id)}
                            ELSE st.pending,
                          failed |-> st.failed \/ rec.failed]

\* the loop over get_trust_list_of_id(current.id); an edge touches only the entries
\* of its own candidate, so the order of the HashMap does not show in the outcome
\* (the set of the one value binds the state after an edge, so that it is computed once)
RECURSIVE VisitEdges(_, _, _, _, _)
VisitEdges(st, d, cur, todo, prm) ==
    IF todo = {} THEN st
    ELSE LET edge == CHOOSE e \in todo : TRUE
         IN CHOOSE r \in {VisitEdges(s1, d, cur, todo \ {edge}, prm) :
                             s1 \in {VisitEdge(st, cur, edge[1], edge[2], prm)}} : TRUE

----------------------------------------------------------------------------
(* SpecTrust: calculate_trust_set on a store that holds a trust graph *)

TrustIds == 1..3

ParamChoices == {TrustDistanceParams_default, new_no_wot, TrustDistanceParams(2, 1, 1, 2)}

\* the sets of at most MaxEdges (from, to) pairs
EdgeSets ==
    {{}} \cup {{f[i] : i \in 1..MaxEdges} : f \in [1..MaxEdges -> TrustIds \X TrustIds]}

\* trust_id_to_id holding the edges E with the levels lv
GraphOf(E, lv) ==
    [from \in {e[1] : e \in E} |->
        [to \in {e[2] : e \in {x \in E : x[1] = from}} |->
            Timestamped(1, lv[<<from, to>>])]]

InitTrust ==
    /\ \E E \in EdgeSets : \E lv \in [E -> TrustLevels] :
          db = [ProofDB_new EXCEPT !.trust_id_to_id = GraphOf(E, lv)]
    /\ for_id \in TrustIds
    /\ params \in ParamChoices
    /\ pc = "loop"
    /\ distrusted = EmptyMap
    /\ prev_distrusted_len = 0
    /\ pending = {}
    /\ current_trust_set = TrustSet_default
    /\ initial_distrusted_len = 0
    /\ previous_iter_trust_level = High
    /\ trust_set = TrustSet_default
    /\ current = NoneOpt
    /\ passes = 0
    /\ derived_alternatives = AlternativesData_new
    /\ ingested = << >>
    /\ queried = FALSE
    /\ IdleOrder
    /\ IdleRest

\* calculate_trust_set: the head of the loop and the entry of calculate_trust_set_internal
EnterTraversal ==
    /\ pc = "loop"
    /\ prev_distrusted_len' = Cardinality(DOMAIN distrusted)
    /\ initial_distrusted_len' = Cardinality(DOMAIN distrusted)
    /\ current_trust_set' = SeedTrustSet(distrusted, for_id)
    /\ pending' = {Visit(High, 0, for_id)}
    /\ previous_iter_trust_level' = High
    /\ current' = NoneOpt
    /\ passes' = passes + 1
    /\ pc' = "traverse"
    /\ UNCHANGED <<for_id, params, distrusted, trust_set, storeVars, orderVars>>
    /\ UNCHANGED restVars

\* the popped visit is of another level than previous_iter_trust_level
LevelChanged(cur) == cur.effective_trust_level # previous_iter_trust_level

\* the restart clause: bans were added in this pass
Restarting(cur) ==
    /\ LevelChanged(cur)
    /\ initial_distrusted_len # Cardinality(DOMAIN current_trust_set.distrusted)

\* one iteration of the while loop that processes the edges of the popped visit
VisitNode ==
    /\ pc = "traverse"
    /\ pending # {}
    /\ \E cur \in {FirstPending(pending)} :
       \E st \in {VisitEdges([ts |-> current_trust_set,
                              pending |-> pending \ {cur},
                              failed |-> FALSE],
                             db, cur, get_trust_list_of_id(db, cur.id), params)} :
       LET asserted == LevelChanged(cur) =>
                          cur.effective_trust_level < previous_iter_trust_level
       IN /\ ~Restarting(cur) \/ ~asserted
          /\ current' = Some(cur)
          /\ IF asserted /\ ~st.failed
             THEN /\ current_trust_set' = st.ts
                  /\ pending' = st.pending
                  /\ previous_iter_trust_level' =
                        IF LevelChanged(cur) THEN previous_iter_trust_level
                        ELSE cur.effective_trust_level
                  /\ pc' = "traverse"
             ELSE /\ pc' = "panic"
                  /\ UNCHANGED <<current_trust_set, pending, previous_iter_trust_level>>
    /\ UNCHANGED <<for_id, params, distrusted, prev_distrusted_len,
                   initial_distrusted_len, trust_set, passes, storeVars, orderVars>>
    /\ UNCHANGED restVars

\* one iteration of the while loop that ends in `break`
BreakTraversal ==
    /\ pc = "traverse"
    /\ pending # {}
    /\ LET cur == FirstPending(pending)
       IN /\ Restarting(cur)
          /\ cur.effective_trust_level < previous_iter_trust_level
          /\ pending' = pending \ {cur}
          /\ current' = Some(cur)
    /\ pc' = "returned"
    /\ UNCHANGED <<for_id, params, distrusted, prev_distrusted_len, current_trust_set,
                   initial_distrusted_len, previous_iter_trust_level, trust_set, passes,
                   storeVars, orderVars>>
    /\ UNCHANGED restVars

\* the while loop ends: pending is empty
EndTraversal ==
    /\ pc = "traverse"
    /\ pending = {}
    /\ pc' = "returned"
    /\ UNCHANGED <<for_id, params, distrusted, prev_distrusted_len, pending,
                   current_trust_set, initial_distrusted_len,
                   previous_iter_trust_level, trust_set, current, passes,
                   storeVars, orderVars>>
    /\ UNCHANGED restVars

\* calculate_trust_set: no ban was added by the pass, its trust set is returned
ReturnTrustSet ==
    /\ pc = "returned"
    /\ Cardinality(DOMAIN current_trust_set.distrusted) <= prev_distrusted_len
    /\ trust_set' = current_trust_set
    /\ pc' = "done"
    /\ UNCHANGED <<for_id, params, distrusted, prev_distrusted_len, pending,
                   current_trust_set, initial_distrusted_len,
                   previous_iter_trust_level, current, passes, storeVars, orderVars>>
    /\ UNCHANGED restVars

\* calculate_trust_set: bans were added, the next pass starts from them
Retry ==
    /\ pc = "returned"
    /\ ~(Cardinality(DOMAIN current_trust_set.distrusted) <= prev_distrusted_len)
    /\ distrusted' = current_trust_set.distrusted
    /\ pc' = "loop"
    /\ UNCHANGED <<for_id, params, prev_distrusted_len, pending, current_trust_set,
                   initial_distrusted_len, previous_iter_trust_level, trust_set,
                   current, passes, storeVars, orderVars>>
    /\ UNCHANGED restVars

NextTrust ==
    \/ EnterTraversal
    \/ VisitNode
    \/ BreakTraversal
    \/ EndTraversal
    \/ ReturnTrustSet
    \/ Retry

SpecTrust == InitTrust /\ [][NextTrust]_vars

\* calculate_trust_set runs on one thread and nothing suspends it: a step that can be
\* taken is taken
SpecTrustFair == SpecTrust /\ WF_vars(NextTrust)

----------------------------------------------------------------------------
(* SpecBan: calculate_trust_set for a root that trusts the two other ids *)

\* the sets of at most MaxBanEdges (from, to) pairs that do not start at the root
BanEdgeSets ==
    {{}} \cup {{f[i] : i \in 1..MaxBanEdges} :
                  f \in [1..MaxBanEdges -> (TrustIds \ {1}) \X TrustIds]}

InitBan ==
    /\ \E E \in BanEdgeSets :
          \E lv \in [E \cup {<<1, 2>>, <<1, 3>>} -> TrustLevels] :
             /\ lv[<<1, 2>>] >= Low
             /\ lv[<<1, 3>>] >= Low
             /\ db = [ProofDB_new EXCEPT
                         !.trust_id_to_id = GraphOf(E \cup {<<1, 2>>, <<1, 3>>}, lv)]
    /\ for_id = 1
    /\ params \in ParamChoices
    /\ pc = "loop"
    /\ distrusted = EmptyMap
    /\ prev_distrusted_len = 0
    /\ pending = {}
    /\ current_trust_set = TrustSet_default
    /\ initial_distrusted_len = 0
    /\ previous_iter_trust_level = High
    /\ trust_set = TrustSet_default
    /\ current = NoneOpt
    /\ passes = 0
    /\ derived_alternatives = AlternativesData_new
    /\ ingested = << >>
    /\ queried = FALSE
    /\ IdleOrder
    /\ IdleRest

SpecBan == InitBan /\ [][NextTrust]_vars

----------------------------------------------------------------------------
(* Claims about the returned TrustSet *)

Returned == pc = "done"

HasEdge(from, to) ==
    from \in DOMAIN db.trust_id_to_id /\ to \in DOMAIN db.trust_id_to_id[from]

EdgeLevel(from, to) == db.trust_id_to_id[from][to].value

Distrusts(x, y) == HasEdge(x, y) /\ EdgeLevel(x, y) = Distrust

\* the trust graph with exactly the given <<from, to, level>> edges
GraphIs(edges) ==
    /\ \A e \in edges : HasEdge(e[1], e[2]) /\ EdgeLevel(e[1], e[2]) = e[3]
    /\ \A x \in TrustIds, y \in TrustIds :
          HasEdge(x, y) => \E e \in edges : e[1] = x /\ e[2] = y

\* id -> <<effective trust level, distance>> of the trusted ids
Levels(ts) ==
    [i \in DOMAIN ts.trusted |->
        <<ts.trusted[i].effective_trust_level, ts.trusted[i].distance>>]

\* C1: the returned TrustSet holds the root as trusted, with level High and distance 0,
\* whatever the store and the parameters, also when a visited id distrusts the root.
C1_RootTrusted ==
    Returned =>
        /\ is_trusted(trust_set, for_id)
        /\ trust_set.trusted[for_id].effective_trust_level = High
        /\ trust_set.trusted[for_id].distance = 0
        /\ get_effective_trust_level(trust_set, for_id) = High

\* an id that the returned set trusts holds a Distrust edge to the root
C1_Witness ==
    /\ Returned
    /\ \E x \in TrustIds :
        /\ x # for_id
        /\ is_trusted(trust_set, x)
        /\ Distrusts(x, for_id)
    /\ is_trusted(trust_set, for_id)

C3_NoWot ==
    (Returned /\ params = new_no_wot) => DOMAIN trust_set.trusted = {for_id}

\* computed with new_no_wot() on a store where the root trusts others at High and Low
C3_Witness ==
    /\ Returned
    /\ params = new_no_wot
    /\ \E x \in TrustIds, y \in TrustIds :
        /\ x # for_id /\ y # for_id
        /\ HasEdge(for_id, x) /\ EdgeLevel(for_id, x) = High
        /\ HasEdge(for_id, y) /\ EdgeLevel(for_id, y) = Low

\* the paths of distinct ids from the root to y along stored edges
PathsTo(y) ==
    {p \in UNION {[1..n -> TrustIds] : n \in 1..Cardinality(TrustIds)} :
        /\ p[1] = for_id
        /\ p[Len(p)] = y
        /\ \A i, j \in 1..Len(p) : p[i] = p[j] => i = j
        /\ \A i \in 1..(Len(p) - 1) : HasEdge(p[i], p[i + 1])}

\* the effective level at hop i (p[i] -> p[i+1]) of path p: the least level so far
RECURSIVE HopLevel(_, _)
HopLevel(p, i) ==
    IF i = 0 THEN High
    ELSE IF EdgeLevel(p[i], p[i + 1]) <= HopLevel(p, i - 1)
         THEN EdgeLevel(p[i], p[i + 1]) ELSE HopLevel(p, i - 1)

\* the distance accumulated over the first i hops of path p
RECURSIVE HopDistance(_, _)
HopDistance(p, i) ==
    IF i = 0 THEN 0
    ELSE HopDistance(p, i - 1) +
         (IF HopLevel(p, i) = High THEN params.high_trust_distance
          ELSE IF HopLevel(p, i) = Medium THEN params.medium_trust_distance
          ELSE params.low_trust_distance)

PathTraversable(p) ==
    \A i \in 1..(Len(p) - 1) :
        /\ EdgeLevel(p[i], p[i + 1]) >= Low
        /\ HopDistance(p, i) <= params.max_distance

\* C4: without Distrust edges, an id y with exactly one path from the root is trusted
\* iff every edge of the path is >= Low and every accumulated distance is
\* <= max_distance; its level is then the least edge level of the path and its
\* distance the sum of the hops' distance_by_level.  S1 yields A:High@0, B:High@0,
\* C:Medium@1.
C4_SinglePath ==
    Returned =>
        /\ (\A x \in TrustIds, z \in TrustIds : ~Distrusts(x, z)) =>
              \A y \in TrustIds :
                  Cardinality(PathsTo(y)) = 1 =>
                      LET p == CHOOSE q \in PathsTo(y) : TRUE
                      IN /\ is_trusted(trust_set, y) <=> PathTraversable(p)
                         /\ is_trusted(trust_set, y) =>
                              /\ trust_set.trusted[y].effective_trust_level
                                    = HopLevel(p, Len(p) - 1)
                              /\ trust_set.trusted[y].distance = HopDistance(p, Len(p) - 1)
        /\ (/\ for_id = 1
            /\ params = TrustDistanceParams_default
            /\ GraphIs({<<1, 2, High>>, <<2, 3, Medium>>}))
              => Levels(trust_set) = (1 :> <<High, 0>>) @@ (2 :> <<High, 0>>)
                                        @@ (3 :> <<Medium, 1>>)

\* S1 was computed
C4_Witness ==
    /\ Returned
    /\ for_id = 1
    /\ params = TrustDistanceParams_default
    /\ GraphIs({<<1, 2, High>>, <<2, 3, Medium>>})
    /\ is_trusted(trust_set, 3)

----------------------------------------------------------------------------
(* Claims about the traversal passes *)

InPass == pc \in {"traverse", "returned"}

\* C21: the bans handed to a pass stay in its trust set as they were handed over (no
\* Distrust edge to a banned id is evaluated), a banned id is not recorded as trusted
\* by any edge (only the seeded root can be both), the bans of a pass only grow, the
\* next pass and the returned TrustSet hold all of them.
C21_BansKept ==
    /\ [](InPass =>
            \A x \in DOMAIN distrusted :
                /\ x \in DOMAIN current_trust_set.distrusted
                /\ current_trust_set.distrusted[x] = distrusted[x]
                /\ x \in DOMAIN current_trust_set.trusted =>
                     /\ x = for_id
                     /\ current_trust_set.trusted[x]
                            = SeedTrustSet(distrusted, for_id).trusted[x])
    /\ [](Returned => DOMAIN distrusted \subseteq DOMAIN trust_set.distrusted)
    /\ [][/\ DOMAIN distrusted \subseteq DOMAIN distrusted'
          /\ (pc = "traverse" /\ pc' # "loop") =>
                DOMAIN current_trust_set.distrusted
                    \subseteq DOMAIN current_trust_set'.distrusted
          /\ pc' = "loop" => DOMAIN current_trust_set.distrusted \subseteq DOMAIN distrusted'
          /\ pc' = "done" => DOMAIN current_trust_set.distrusted
                                \subseteq DOMAIN trust_set'.distrusted]_vars

\* the second pass is over: an id banned in the first pass is trusted at High by a
\* visited id, and is not trusted
C21_Witness ==
    /\ pc = "returned"
    /\ passes = 2
    /\ \E x \in DOMAIN distrusted, y \in DOMAIN current_trust_set.trusted :
        /\ x # for_id
        /\ HasEdge(y, x)
        /\ EdgeLevel(y, x) = High
        /\ ~is_trusted(current_trust_set, x)

\* the order the frontier is said to be emptied in: higher level first, then smaller
\* distance, then smaller id
VisitBefore(a, b) ==
    \/ a.effective_trust_level > b.effective_trust_level
    \/ /\ a.effective_trust_level = b.effective_trust_level
       /\ \/ a.distance < b.distance
          \/ a.distance = b.distance /\ a.id < b.id

\* an iteration of the while loop pops a visit
Popping == pc = "traverse" /\ pending # {} /\ pc' # "panic"

\* C22: every iteration of the while loop pops, of the pending visits, the one of the
\* highest effective trust level, among those the one of the smallest distance, among
\* those the one of the smallest id.
C22_HighestTrustFirst ==
    [][Popping =>
        /\ IsSome(current')
        /\ current'[1] \in pending
        /\ \A w \in pending : w = current'[1] \/ VisitBefore(current'[1], w)]_vars

\* C23: an iteration leaves the while loop before processing the popped visit exactly
\* when the level of that visit is strictly lower than the level of the visit popped
\* by the iteration before and the pass has added bans; otherwise it processes the
\* edges of the popped visit and the loop goes on.
C23_RestartClause ==
    [][Popping =>
        LET dropped == /\ IsSome(current)
                       /\ current'[1].effective_trust_level
                              < current[1].effective_trust_level
            grown == Cardinality(DOMAIN current_trust_set.distrusted)
                        > initial_distrusted_len
        IN IF dropped /\ grown
           THEN pc' = "returned" /\ current_trust_set' = current_trust_set
           ELSE pc' = "traverse"]_vars

\* the ids a path of edges of level >= Low leads to from the root
RECURSIVE TrustReach(_)
TrustReach(S) ==
    LET more == S \cup {y \in TrustIds :
                          \E x \in S : HasEdge(x, y) /\ EdgeLevel(x, y) >= Low}
    IN IF more = S THEN S ELSE TrustReach(more)

\* C26: every trusted id of the returned TrustSet has a distance <= max_distance and a
\* level of Low, Medium or High, and is the root or at the end of a path of edges from
\* the root none of which is a None or a Distrust edge.
C26_TrustedWithinLimits ==
    Returned =>
        \A x \in DOMAIN trust_set.trusted :
            /\ trust_set.trusted[x].distance <= params.max_distance
            /\ trust_set.trusted[x].effective_trust_level \in {Low, Medium, High}
            /\ get_effective_trust_level(trust_set, x) \in {Low, Medium, High}
            /\ x \in TrustReach({for_id})

\* with max_distance 2 and a Low edge of length 2: an id two Low edges away from the
\* root is beyond max_distance and not trusted, the id between them is trusted at
\* distance 2
C26_Witness ==
    /\ Returned
    /\ params = TrustDistanceParams(2, 1, 1, 2)
    /\ \E x \in TrustIds, y \in TrustIds :
        /\ x # for_id /\ y # for_id /\ x # y
        /\ GraphIs({<<for_id, x, Low>>, <<x, y, Low>>})
        /\ is_trusted(trust_set, x)
        /\ trust_set.trusted[x].distance = 2
        /\ ~is_trusted(trust_set, y)

\* the number of ids that are targets of Distrust edges
DistrustTargets ==
    Cardinality({x \in TrustIds : \E y \in TrustIds : Distrusts(y, x)})

\* C25: calculate_trust_set terminates for every trust graph and every parameter set:
\* the call returns; the number of passes is at most the number of targets of Distrust
\* edges plus one; the pass whose distrusted set did not grow is returned and every
\* restart starts from strictly more bans.
C25_Terminates ==
    /\ <>Returned
    /\ [](passes <= DistrustTargets + 1)
    /\ [][/\ (pc = "returned" /\ Cardinality(DOMAIN current_trust_set.distrusted)
                                    <= Cardinality(DOMAIN distrusted))
              => (pc' = "done" /\ trust_set' = current_trust_set)
          /\ (pc = "returned" /\ pc' = "loop")
              => Cardinality(DOMAIN distrusted') > Cardinality(DOMAIN distrusted)]_vars

\* a call on a cycle of zero-distance High edges with one ban has returned after
\* two passes
C25_Witness ==
    /\ Returned
    /\ passes = 2
    /\ for_id = 1
    /\ params = TrustDistanceParams_default
    /\ GraphIs({<<1, 2, High>>, <<2, 1, High>>, <<2, 3, Distrust>>})
    /\ is_trusted(trust_set, 2)
    /\ is_distrusted(trust_set, 3)

\* the level at which x is reached from the root: x holds an edge of the root of level
\* Low or more whose length is within max_distance
ReachedAt(x, level) ==
    /\ HasEdge(for_id, x)
    /\ EdgeLevel(for_id, x) = level
    /\ level >= Low
    /\ distance_by_level(params, level) # NoneOpt
    /\ distance_by_level(params, level)[1] <= params.max_distance

\* H and L distrust each other and nobody else distrusts H
MutualBan(H, L) ==
    /\ H # for_id /\ L # for_id /\ H # L
    /\ Distrusts(H, L)
    /\ Distrusts(L, H)
    /\ \A z \in TrustIds \ {L} : ~Distrusts(z, H)

\* C24: when H is reached from the root at a strictly higher effective trust level than
\* L, H and L distrust each other and nobody else distrusts H, the returned TrustSet
\* holds L as distrusted and H as trusted.
C24_HigherBanWins ==
    Returned =>
        \A H \in TrustIds, L \in TrustIds :
            (/\ MutualBan(H, L)
             /\ \E lh \in TrustLevels, ll \in TrustLevels :
                   ReachedAt(H, lh) /\ ReachedAt(L, ll) /\ lh > ll)
            => /\ is_distrusted(trust_set, L)
               /\ is_trusted(trust_set, H)

\* C30: no id is both trusted and distrusted in the returned TrustSet, and
\* get_effective_trust_level answers no level >= Low for an id is_distrusted
\* recognises.
C30_TrustedDistrustedDisjoint ==
    Returned =>
        /\ DOMAIN trust_set.trusted \cap DOMAIN trust_set.distrusted = {}
        /\ \A x \in TrustIds :
              is_distrusted(trust_set, x) => get_effective_trust_level(trust_set, x) < Low

\* C31: the returned TrustSet is closed under the bans of its trusted ids: for every
\* trusted id x and every stored edge from x of level Distrust to y, y is distrusted.
C31_BansOfTrustedApplied ==
    Returned =>
        \A x \in DOMAIN trust_set.trusted : \A y \in TrustIds :
            Distrusts(x, y) => is_distrusted(trust_set, y)

\* a call has returned after a restart: a trusted id other than the root holds a
\* Distrust edge to a third id, which is distrusted and reported by it
C31_Witness ==
    /\ Returned
    /\ passes = 2
    /\ \E x \in DOMAIN trust_set.trusted, y \in TrustIds :
        /\ x # for_id /\ y # for_id /\ x # y
        /\ Distrusts(x, y)
        /\ is_distrusted(trust_set, y)
        /\ x \in trust_set.distrusted[y].reported_by

\* C32: in the returned TrustSet every distrusted id has, among its reporters, an id
\* that is trusted in the same set.
C32_OnlyTrustedBan ==
    Returned =>
        \A y \in DOMAIN trust_set.distrusted :
            \E x \in trust_set.distrusted[y].reported_by : is_trusted(trust_set, x)

\* C33: no assertion of the trust computation fails: neither the assertion on the
\* level of the popped visit, nor the unreachable! for an effective level below None,
\* nor the assertion of record_trusted_id.
C33_NoAssertionFails == pc # "panic"

\* an iteration popped a visit of a level other than previous_iter_trust_level, its
\* assertion held, and the visit recorded an id as trusted
C33_Witness ==
    /\ pc = "traverse"
    /\ IsSome(current)
    /\ current[1].effective_trust_level < previous_iter_trust_level
    /\ \E y \in DOMAIN current_trust_set.trusted :
        /\ y # for_id
        /\ current[1].id \in DOMAIN current_trust_set.trusted[y].reported_by

----------------------------------------------------------------------------
(* Versions, issues and advisories *)

\* semver::Version, ordered by major, minor, patch
Version(major, minor, patch) == <<major, minor, patch>>

VersionLess(a, b) ==
    \/ a[1] < b[1]
    \/ a[1] = b[1] /\ a[2] < b[2]
    \/ a[1] = b[1] /\ a[2] = b[2] /\ a[3] < b[3]

VersionLeq(a, b) == a = b \/ VersionLess(a, b)

\* the range predicate of an issue or an advisory: every version, the versions of the
\* same major version, or those of the same major and minor version
VersionRangeMatches(range, for_version, in_pkg_version) ==
    CASE range = "All" -> TRUE
      [] range = "Major" -> in_pkg_version[1] = for_version[1]
      [] range = "Minor" -> in_pkg_version[1] = for_version[1]
                            /\ in_pkg_version[2] = for_version[2]

Issue(id, range) == [id |-> id, range |-> range]

Advisory(ids, range) == [ids |-> ids, range |-> range]

\* Issue::is_for_version_when_reported_in_version: the issue reported in a review of
\* in_pkg_version affects for_version
Issue_is_for_version_when_reported_in_version(issue, for_version, in_pkg_version) ==
    VersionRangeMatches(issue.range, for_version, in_pkg_version)

\* Advisory::is_for_version_when_reported_in_version: the advisory of a review of
\* in_pkg_version tells the users of the earlier version for_version to upgrade
Advisory_is_for_version_when_reported_in_version(advisory, for_version, in_pkg_version) ==
    /\ VersionLess(for_version, in_pkg_version)
    /\ VersionRangeMatches(advisory.range, for_version, in_pkg_version)

----------------------------------------------------------------------------
(* Package review queries *)

\* the PkgVersionReviewIds package_reviews holds for (source, name), by version
ReviewIdsByVersion(d, source, name) ==
    IF source \in DOMAIN d.package_reviews /\ name \in DOMAIN d.package_reviews[source]
    THEN d.package_reviews[source][name]
    ELSE EmptyMap

ReviewIdsIn(by_version, versions) == UNION {by_version[v] : v \in versions}

get_pkg_reviews_for_source(d, source) ==
    IF source \in DOMAIN d.package_reviews
    THEN {get_pkg_review_by_pkg_review_id(d, u) :
            u \in UNION {ReviewIdsIn(d.package_reviews[source][n],
                                     DOMAIN d.package_reviews[source][n]) :
                            n \in DOMAIN d.package_reviews[source]}}
    ELSE {}

get_pkg_reviews_for_name(d, source, name) ==
    LET m == ReviewIdsByVersion(d, source, name)
    IN {get_pkg_review_by_pkg_review_id(d, u) : u \in ReviewIdsIn(m, DOMAIN m)}

get_pkg_reviews_for_version(d, source, name, version) ==
    LET m == ReviewIdsByVersion(d, source, name)
    IN {get_pkg_review_by_pkg_review_id(d, u) : u \in ReviewIdsIn(m, (DOMAIN m) \cap {version})}

get_pkg_reviews_gte_version(d, source, name, version) ==
    LET m == ReviewIdsByVersion(d, source, name)
    IN {get_pkg_review_by_pkg_review_id(d, u) :
          u \in ReviewIdsIn(m, {v \in DOMAIN m : VersionLeq(version, v)})}

get_pkg_reviews_lte_version(d, source, name, version) ==
    LET m == ReviewIdsByVersion(d, source, name)
    IN {get_pkg_review_by_pkg_review_id(d, u) :
          u \in ReviewIdsIn(m, {v \in DOMAIN m : VersionLeq(v, version)})}

----------------------------------------------------------------------------
(* get_open_issues_for_version *)

IssueDetails_default == [severity |-> "default", issues |-> {}, advisories |-> {}]

\* mutation: the trust filter lets every author through
is_trusted_enough_anyone(trust, review, trust_level_required) == TRUE

\* the filter of both loops: effective >= trust_level_required
is_trusted_enough(trust, review, trust_level_required) ==
    get_effective_trust_level(trust, review.from.id) >= trust_level_required

\* issue_reports_by_id.entry(id).or_default().issues.insert(PkgVersionReviewId::from(review))
InsertReport(issue_reports_by_id, id, review) ==
    Put(issue_reports_by_id, id,
        [GetOr(issue_reports_by_id, id, IssueDetails_default)
            EXCEPT !.issues = @ \cup {PkgVersionReviewId(review)}])

\* the first loop: the `issues` fields of the trusted reviews of versions up to the
\* queried one; the loop only inserts, so the order of iteration does not show
collect_issue_reports(d, source, name, queried_version, trust, trust_level_required) ==
    LET reviews == {r \in get_pkg_reviews_lte_version(d, source, name, queried_version) :
                        is_trusted_enough(trust, r, trust_level_required)}
        pairs == {x \in UNION {{<<r, r.issues[i]>> : i \in 1..Len(r.issues)} : r \in reviews} :
                     Issue_is_for_version_when_reported_in_version(
                         x[2], queried_version, x[1].package.id.version)}
    IN [id \in {x[2].id : x \in pairs} |->
           [IssueDetails_default EXCEPT
               !.issues = {PkgVersionReviewId(x[1]) : x \in {y \in pairs : y[2].id = id}}]]

RECURSIVE InsertReports(_, _, _, _)
InsertReports(issue_reports_by_id, ids, review, i) ==
    IF i > Len(ids) THEN issue_reports_by_id
    ELSE InsertReports(InsertReport(issue_reports_by_id, ids[i], review), ids, review, i + 1)

\* mutation: the advisory is tested with the two versions exchanged
report_by_advisory_swapped(issue_reports_by_id, review, advisory, queried_version) ==
    IF Advisory_is_for_version_when_reported_in_version(
           advisory, review.package.id.version, queried_version)
    THEN InsertReports(issue_reports_by_id, advisory.ids, review, 1)
    ELSE issue_reports_by_id

\* "Add new issue reports created by the advisory"
report_by_advisory(issue_reports_by_id, review, advisory, queried_version) ==
    IF Advisory_is_for_version_when_reported_in_version(
           advisory, queried_version, review.package.id.version)
    THEN InsertReports(issue_reports_by_id, advisory.ids, review, 1)
    ELSE issue_reports_by_id

\* mutation: the advisory is tested with the two versions exchanged
cancel_by_advisory_swapped(d, issue_reports_by_id, review, advisory) ==
    [id \in DOMAIN issue_reports_by_id |->
        IF \E i \in 1..Len(advisory.ids) : advisory.ids[i] = id
        THEN [issue_reports_by_id[id] EXCEPT
                !.issues = {u \in @ :
                    ~Advisory_is_for_version_when_reported_in_version(
                        advisory,
                        review.package.id.version,
                        get_pkg_review_by_pkg_review_id(d, u).package.id.version)}]
        ELSE issue_reports_by_id[id]]

\* "Remove the reports that are already fixed"
cancel_by_advisory(d, issue_reports_by_id, review, advisory) ==
    [id \in DOMAIN issue_reports_by_id |->
        IF \E i \in 1..Len(advisory.ids) : advisory.ids[i] = id
        THEN [issue_reports_by_id[id] EXCEPT
                !.issues = {u \in @ :
                    ~Advisory_is_for_version_when_reported_in_version(
                        advisory,
                        get_pkg_review_by_pkg_review_id(d, u).package.id.version,
                        review.package.id.version)}]
        ELSE issue_reports_by_id[id]]

\* the body of the second loop for the advisories i.. of one review
RECURSIVE ApplyAdvisories(_, _, _, _, _)
ApplyAdvisories(d, issue_reports_by_id, review, queried_version, i) ==
    IF i > Len(review.advisories) THEN issue_reports_by_id
    ELSE ApplyAdvisories(
            d,
            cancel_by_advisory(
                d,
                report_by_advisory(issue_reports_by_id, review, review.advisories[i],
                                   queried_version),
                review, review.advisories[i]),
            review, queried_version, i + 1)

\* the second loop: the trusted reviews of every version, in the order ord in which
\* get_pkg_reviews_for_name yields them
RECURSIVE ApplyReviews(_, _, _, _, _, _, _)
ApplyReviews(d, issue_reports_by_id, ord, queried_version, trust, trust_level_required, i) ==
    IF i > Len(ord) THEN issue_reports_by_id
    ELSE LET review == get_pkg_review_by_pkg_review_id(d, ord[i])
         IN ApplyReviews(
                d,
                IF is_trusted_enough(trust, review, trust_level_required)
                THEN ApplyAdvisories(d, issue_reports_by_id, review, queried_version, 1)
                ELSE issue_reports_by_id,
                ord, queried_version, trust, trust_level_required, i + 1)

\* the orders in which get_pkg_reviews_for_name can yield the reviews: the BTreeMap by
\* ascending version, the HashSet of one version in any order
ReviewOrders(d, source, name) ==
    LET m == ReviewIdsByVersion(d, source, name)
    IN {ord \in Orders(ReviewIdsIn(m, DOMAIN m)) :
          \A i, j \in 1..Len(ord) :
              i < j => VersionLeq(ord[i].package_version_id.version,
                                  ord[j].package_version_id.version)}

get_open_issues_for_version(d, source, name, queried_version, trust, trust_level_required, ord) ==
    LET all == ApplyReviews(
                   d,
                   collect_issue_reports(d, source, name, queried_version, trust,
                                         trust_level_required),
                   ord, queried_version, trust, trust_level_required, 1)
    IN [id \in {x \in DOMAIN all : all[x].issues # {} \/ all[x].advisories # {}} |-> all[id]]

----------------------------------------------------------------------------
(* The queries by (source, name, version) *)

\* what a call gives: it panicked, or the reviews its iterator yields
Panicked == [panicked |-> TRUE, reviews |-> {}]

Yields(reviews) == [panicked |-> FALSE, reviews |-> reviews]

\* mutation: the shape (None, Some) silently yields nothing
get_package_reviews_for_package_lenient(d, source, name, version) ==
    IF IsSome(name) /\ IsSome(version)
    THEN Yields(get_pkg_reviews_for_version(d, source, name[1], version[1]))
    ELSE IF IsSome(name) THEN Yields(get_pkg_reviews_for_name(d, source, name[1]))
    ELSE IF ~IsSome(version) THEN Yields(get_pkg_reviews_for_source(d, source))
    ELSE Yields({})

get_package_reviews_for_package(d, source, name, version) ==
    IF IsSome(name) /\ IsSome(version)
    THEN Yields(get_pkg_reviews_for_version(d, source, name[1], version[1]))
    ELSE IF IsSome(name) THEN Yields(get_pkg_reviews_for_name(d, source, name[1]))
    ELSE IF ~IsSome(version) THEN Yields(get_pkg_reviews_for_source(d, source))
    ELSE Panicked

\* review::Package::is_advisory_for: an advisory of the review matches the version
is_advisory_for(review, version) ==
    \E i \in 1..Len(review.advisories) :
        Advisory_is_for_version_when_reported_in_version(
            review.advisories[i], version, review.package.id.version)

get_advisories_for_version(d, source, name, version) ==
    {r \in get_pkg_reviews_gte_version(d, source, name, version) : is_advisory_for(r, version)}

get_advisories_for_package(d, source, name) ==
    {r \in get_pkg_reviews_for_name(d, source, name) : r.advisories # << >>}

get_advisories_for_source(d, source) ==
    {r \in get_pkg_reviews_for_source(d, source) : r.advisories # << >>}

get_advisories(d, source, name, version) ==
    IF IsSome(name) /\ IsSome(version)
    THEN Yields(get_advisories_for_version(d, source, name[1], version[1]))
    ELSE IF IsSome(name) THEN Yields(get_advisories_for_package(d, source, name[1]))
    ELSE IF ~IsSome(version) THEN Yields(get_advisories_for_source(d, source))
    ELSE Panicked

get_pkg_reviews_with_issues_for_name(d, source, name, trust, trust_level_required) ==
    {r \in get_pkg_reviews_for_name(d, source, name) :
        /\ is_trusted_enough(trust, r, trust_level_required)
        /\ r.issues # << >> \/ r.advisories # << >>}

get_pkg_reviews_with_issues_for_version(d, source, name, queried_version, trust, trust_level_required) ==
    {r \in get_pkg_reviews_with_issues_for_name(d, source, name, trust, trust_level_required) :
        r.issues # << >> \/ is_advisory_for(r, queried_version)}

get_pkg_reviews_with_issues_for_source(d, source, trust, trust_level_required) ==
    {r \in get_pkg_reviews_for_source(d, source) :
        /\ is_trusted_enough(trust, r, trust_level_required)
        /\ r.issues # << >> \/ r.advisories # << >>}

get_pkg_reviews_with_issues_for(d, source, name, version, trust, trust_level_required) ==
    IF IsSome(name) /\ IsSome(version)
    THEN Yields(get_pkg_reviews_with_issues_for_version(d, source, name[1], version[1],
                                                        trust, trust_level_required))
    ELSE IF IsSome(name)
    THEN Yields(get_pkg_reviews_with_issues_for_name(d, source, name[1], trust,
                                                     trust_level_required))
    ELSE IF ~IsSome(version)
    THEN Yields(get_pkg_reviews_with_issues_for_source(d, source, trust,
                                                       trust_level_required))
    ELSE Panicked

----------------------------------------------------------------------------
(* SpecIssues: package reviews with issues and advisories are ingested, then queried *)

\* number of package reviews ingested in SpecIssues
MaxReviews == 2

IssueVersions == {Version(1, 0, 0), Version(1, 1, 0), Version(2, 0, 0)}

\* the `issues` and `advisories` fields of a review
IssueContents ==
    {<<<< >>, << >>>>,
     <<<<Issue("CVE-1", "All")>>, << >>>>,
     <<<<Issue("CVE-2", "Minor")>>, << >>>>,
     <<<< >>, <<Advisory(<<"CVE-1">>, "Major")>>>>,
     <<<< >>, <<Advisory(<<"CVE-1", "CVE-2">>, "All")>>>>,
     <<<<Issue("CVE-1", "All")>>, <<Advisory(<<"CVE-1", "CVE-2">>, "All")>>>>}

\* reviews of the versions of crates/x by id 1 and of its version 1.1.0 by id 2, and
\* one review of crates/y
IssueReviews ==
    {r \in {[from |-> PublicId(a, NoneOpt), date |-> 1,
             package |-> [id |-> PackageVersionId(PackageId("crates", "x"), v),
                          digest |-> "dx"],
             flags |-> [unmaintained |-> FALSE], alternatives |-> {},
             issues |-> c[1], advisories |-> c[2]] :
                a \in StoreIds, v \in IssueVersions, c \in IssueContents} :
        r.from.id = 1 \/ r.package.id.version = Version(1, 1, 0)}
    \cup
    {[from |-> PublicId(1, NoneOpt), date |-> 1,
      package |-> [id |-> PackageVersionId(PackageId("crates", "y"), Version(2, 0, 0)),
                   digest |-> "dy"],
      flags |-> [unmaintained |-> FALSE], alternatives |-> {},
      issues |-> << >>, advisories |-> <<Advisory(<<"CVE-1", "CVE-2">>, "All")>>]}

\* the trust sets handed to the queries: id 1 is the root; id 2 is trusted at Low,
\* distrusted, or unknown
TrustSetChoices ==
    LET root == record_trusted_id(TrustSet_default, 1, 1, 0, High).ts
    IN {root,
        record_trusted_id(root, 2, 1, 5, Low).ts,
        record_distrusted_id(root, 2, 1).ts}

LevelChoices == {NoneLevel, Low, High}

InitIssues ==
    /\ db = ProofDB_new
    /\ derived_alternatives = AlternativesData_new
    /\ ingested = << >>
    /\ queried = FALSE
    /\ answer = NoAnswer
    /\ IdleOrder
    /\ IdleTrust
    /\ IdleReaders

\* add_proof of a package review
ImportReview ==
    /\ db.insertion_counter < MaxReviews
    /\ \E review \in IssueReviews :
        db' = add_proof(db, [kind |-> "package review", parsable |-> TRUE,
                             content |-> review, signature |-> Sign(review)],
                        LocalUser).db
    /\ answer' = NoAnswer
    /\ UNCHANGED <<derived_alternatives, ingested, queried, orderVars, trustVars, readerVars>>

\* a query starts when the caller holds no answer of an earlier one
QueryOpenIssues ==
    /\ answer = NoAnswer
    /\ \E v \in IssueVersions, trust \in TrustSetChoices, level \in LevelChoices :
        \E ord \in ReviewOrders(db, "crates", "x") :
            answer' = [op |-> "get_open_issues_for_version",
                       version |-> v, trust_set |-> trust, trust_level_required |-> level,
                       result |-> get_open_issues_for_version(db, "crates", "x", v, trust,
                                                              level, ord)]
    /\ UNCHANGED <<storeVars, orderVars, trustVars, readerVars>>

\* the names and versions a query by (source, name, version) is made with
NameChoices == {NoneOpt, Some("x")}

VersionChoices == {NoneOpt} \cup {Some(v) : v \in IssueVersions}

QueryReviews ==
    /\ answer = NoAnswer
    /\ \E name \in NameChoices, version \in VersionChoices :
        \/ answer' = [op |-> "get_package_reviews_for_package",
                      name |-> name, version |-> version,
                      result |-> get_package_reviews_for_package(db, "crates", name, version)]
        \/ answer' = [op |-> "get_advisories",
                      name |-> name, version |-> version,
                      result |-> get_advisories(db, "crates", name, version)]
        \/ \E trust \in TrustSetChoices :
             answer' = [op |-> "get_pkg_reviews_with_issues_for",
                        name |-> name, version |-> version,
                        trust_set |-> trust, trust_level_required |-> Low,
                        result |-> get_pkg_reviews_with_issues_for(db, "crates", name,
                                                                   version, trust, Low)]
    /\ UNCHANGED <<storeVars, orderVars, trustVars, readerVars>>

\* the caller drops the answer
DropAnswer ==
    /\ answer # NoAnswer
    /\ answer' = NoAnswer
    /\ UNCHANGED <<storeVars, orderVars, trustVars, readerVars>>

NextIssues == ImportReview \/ QueryOpenIssues \/ QueryReviews \/ DropAnswer

SpecIssues == InitIssues /\ [][NextIssues]_vars

----------------------------------------------------------------------------
(* Claims about get_open_issues_for_version *)

OpenIssuesAnswered == answer.op = "get_open_issues_for_version"

\* the current reviews of crates/x
ReviewsOfX == get_pkg_reviews_for_name(db, "crates", "x")

\* the author of the review has the level the answered query required
AuthorTrusted(review) ==
    get_effective_trust_level(answer.trust_set, review.from.id) >= answer.trust_level_required

HasIssue(review, id) == \E i \in 1..Len(review.issues) : review.issues[i].id = id

\* the advisories of the review that list the issue id
AdvisoriesFor(review, id) ==
    {review.advisories[i] : i \in {j \in 1..Len(review.advisories) :
        \E k \in 1..Len(review.advisories[j].ids) : review.advisories[j].ids[k] = id}}

RECURSIVE AddReviews(_, _, _)
AddReviews(d, reviews, i) ==
    IF i > Len(reviews) THEN d
    ELSE AddReviews(add_package_review(d, reviews[i], Sign(reviews[i]), LocalUser),
                    reviews, i + 1)

\* a store holding only the reviews of sufficiently trusted authors
TrustedStore ==
    AddReviews(ProofDB_new,
               CHOOSE ord \in Orders({r \in get_pkg_reviews_for_source(db, "crates") :
                                        AuthorTrusted(r)}) : TRUE,
               1)

\* C13: every review named in an answer of get_open_issues_for_version is by an author
\* of at least the required effective trust level, and the answer is the one the
\* reviews of such authors give alone: the reviews of the other authors add no report
\* and cancel none.
C13_TrustedReviewsOnly ==
    OpenIssuesAnswered =>
        /\ \A id \in DOMAIN answer.result :
            \A u \in answer.result[id].issues \cup answer.result[id].advisories :
                get_effective_trust_level(answer.trust_set, u.from)
                    >= answer.trust_level_required
        /\ \A ord \in ReviewOrders(TrustedStore, "crates", "x") :
            answer.result =
                get_open_issues_for_version(TrustedStore, "crates", "x", answer.version,
                                            answer.trust_set, answer.trust_level_required,
                                            ord)

\* a trusted author's report of CVE-1 stands although an author below the required
\* level published an advisory for CVE-1 that matches the report's version
C13_Witness ==
    /\ OpenIssuesAnswered
    /\ \E r \in ReviewsOfX, a \in ReviewsOfX :
        /\ AuthorTrusted(r)
        /\ ~AuthorTrusted(a)
        /\ HasIssue(r, "CVE-1")
        /\ \E adv \in AdvisoriesFor(a, "CVE-1") :
            /\ Advisory_is_for_version_when_reported_in_version(
                   adv, r.package.id.version, a.package.id.version)
            /\ Advisory_is_for_version_when_reported_in_version(
                   adv, answer.version, a.package.id.version)
        /\ "CVE-1" \in DOMAIN answer.result
        /\ answer.result["CVE-1"].issues = {PkgVersionReviewId(r)}

\* the store holds exactly these reviews of crates/x
ReviewsAre(reviews) == ReviewsOfX = reviews

\* a review of crates/x by id 1
ReviewBy1(version, issues, advisories) ==
    [from |-> PublicId(1, NoneOpt), date |-> 1,
     package |-> [id |-> PackageVersionId(PackageId("crates", "x"), version), digest |-> "dx"],
     flags |-> [unmaintained |-> FALSE], alternatives |-> {},
     issues |-> issues, advisories |-> advisories]

\* S5: CVE-1 reported at 1.0.0, an advisory for CVE-1 at 1.1.0 that matches 1.0.0
S5_Reviews ==
    {ReviewBy1(Version(1, 0, 0), <<Issue("CVE-1", "All")>>, << >>),
     ReviewBy1(Version(1, 1, 0), << >>, <<Advisory(<<"CVE-1">>, "Major")>>)}

\* the review is trusted, of a version up to the queried one and reports the issue id in
\* its `issues` field for the queried version
ReportsByIssuesField(review, id) ==
    /\ AuthorTrusted(review)
    /\ VersionLeq(review.package.id.version, answer.version)
    /\ \E i \in 1..Len(review.issues) :
        /\ review.issues[i].id = id
        /\ Issue_is_for_version_when_reported_in_version(
               review.issues[i], answer.version, review.package.id.version)

\* a trusted review carries an advisory for the issue id that matches the version of
\* the reporting review
CancelledBy(fix, review, id) ==
    /\ AuthorTrusted(fix)
    /\ \E adv \in AdvisoriesFor(fix, id) :
        Advisory_is_for_version_when_reported_in_version(
            adv, review.package.id.version, fix.package.id.version)

\* C14: a report from the `issues` field of a review is absent from the answer whenever
\* a sufficiently trusted review of the package carries an advisory that lists the
\* issue id and matches the version of the reporting review; an issue id all of whose
\* reports were removed has no entry in the answer (S5: queried at 2.0.0, past the
\* advisory, the answer has no CVE-1).
C14_AdvisoryCancelsIssue ==
    OpenIssuesAnswered =>
        /\ \A r \in ReviewsOfX, id \in {"CVE-1", "CVE-2"} :
            (ReportsByIssuesField(r, id) /\ \E fix \in ReviewsOfX : CancelledBy(fix, r, id))
                => \/ id \notin DOMAIN answer.result
                   \/ PkgVersionReviewId(r) \notin answer.result[id].issues
        /\ \A id \in DOMAIN answer.result :
            answer.result[id].issues # {} \/ answer.result[id].advisories # {}
        /\ (/\ ReviewsAre(S5_Reviews)
            /\ answer.version = Version(2, 0, 0)
            /\ AuthorTrusted(ReviewBy1(Version(1, 0, 0), << >>, << >>)))
                => "CVE-1" \notin DOMAIN answer.result

\* S5 queried at 2.0.0: the report of 1.0.0 affects 2.0.0 and is cancelled
C14_Witness ==
    /\ OpenIssuesAnswered
    /\ ReviewsAre(S5_Reviews)
    /\ answer.version = Version(2, 0, 0)
    /\ \E r \in ReviewsOfX :
        /\ ReportsByIssuesField(r, "CVE-1")
        /\ \E fix \in ReviewsOfX : CancelledBy(fix, r, "CVE-1")
    /\ answer.result = EmptyMap

\* the review reports the issue id for the queried version through an advisory
ReportsByAdvisory(review, id) ==
    /\ AuthorTrusted(review)
    /\ \E adv \in AdvisoriesFor(review, id) :
        Advisory_is_for_version_when_reported_in_version(
            adv, answer.version, review.package.id.version)

\* C15: the reports of the `issues` fields come from reviews of versions up to the
\* queried one only, the advisories of the reviews of every version are considered:
\* every review an answer lists under `issues` either reports by its `issues` field
\* from a version not above the queried one or by an advisory that matches the queried
\* version; and when one sufficiently trusted review is the only one that carries
\* advisories and an advisory of it matches the queried version, the answer lists that
\* review under `issues` of every id of the advisory (S5: queried at 1.0.0, CVE-1 is
\* present).
C15_AdvisoryReportsIssue ==
    OpenIssuesAnswered =>
        /\ \A id \in DOMAIN answer.result :
            \A u \in answer.result[id].issues :
                LET r == get_pkg_review_by_pkg_review_id(db, u)
                IN ReportsByIssuesField(r, id) \/ ReportsByAdvisory(r, id)
        /\ \A a \in ReviewsOfX :
            (/\ AuthorTrusted(a)
             /\ \A r \in ReviewsOfX : r.advisories # << >> => r = a)
                => \A i \in 1..Len(a.advisories) :
                     Advisory_is_for_version_when_reported_in_version(
                         a.advisories[i], answer.version, a.package.id.version)
                       => \A k \in 1..Len(a.advisories[i].ids) :
                            /\ a.advisories[i].ids[k] \in DOMAIN answer.result
                            /\ PkgVersionReviewId(a) \in
                                   answer.result[a.advisories[i].ids[k]].issues
        /\ (ReviewsAre(S5_Reviews) /\ answer.version = Version(1, 0, 0))
                => "CVE-1" \in DOMAIN answer.result

\* S5 queried at 1.0.0: the advisory of 1.1.0, a version above the queried one, is the
\* only report of CVE-1 left
C15_Witness ==
    /\ OpenIssuesAnswered
    /\ ReviewsAre(S5_Reviews)
    /\ answer.version = Version(1, 0, 0)
    /\ DOMAIN answer.result = {"CVE-1"}
    /\ answer.result["CVE-1"].issues =
           {PkgVersionReviewId(
                ReviewBy1(Version(1, 1, 0), << >>, <<Advisory(<<"CVE-1">>, "Major")>>))}

\* C16: in every IssueDetails of an answer the `issues` set holds the reviews that
\* reported the issue by their `issues` field and the `advisories` set the reviews
\* that reported it by their `advisories` field.
C16_IssueDetailsFields ==
    OpenIssuesAnswered =>
        \A id \in DOMAIN answer.result :
            /\ \A u \in answer.result[id].issues :
                HasIssue(get_pkg_review_by_pkg_review_id(db, u), id)
            /\ \A u \in answer.result[id].advisories :
                AdvisoriesFor(get_pkg_review_by_pkg_review_id(db, u), id) # {}
            /\ \A r \in ReviewsOfX :
                (ReportsByAdvisory(r, id) /\ ~HasIssue(r, id))
                    => PkgVersionReviewId(r) \in answer.result[id].advisories

----------------------------------------------------------------------------
(* Claims about the queries by (source, name, version) *)

ShapeAnswered ==
    answer.op \in {"get_package_reviews_for_package", "get_advisories",
                   "get_pkg_reviews_with_issues_for"}

\* the store holds a review of source crates that has the name asked for, if one was
\* asked for
DataOfName(name) ==
    \E u \in DOMAIN db.package_review_signatures_by_pkg_review_id :
        /\ u.package_version_id.id.source = "crates"
        /\ IsSome(name) => u.package_version_id.id.name = name[1]

\* C17: get_package_reviews_for_package, get_advisories and
\* get_pkg_reviews_with_issues_for panic when called with a version and no name and
\* yield nothing then; with (name, version), (name, no version) and (no name, no
\* version) they do not panic, and yield no review when the store has none of that
\* source and name.
C17_QueryShapes ==
    ShapeAnswered =>
        IF ~IsSome(answer.name) /\ IsSome(answer.version)
        THEN answer.result = Panicked
        ELSE /\ ~answer.result.panicked
             /\ ~DataOfName(answer.name) => answer.result.reviews = {}
             /\ answer.op = "get_package_reviews_for_package" =>
                  answer.result.reviews =
                      {get_pkg_review_by_pkg_review_id(db, u) :
                          u \in {w \in DOMAIN db.package_review_signatures_by_pkg_review_id :
                                   /\ IsSome(answer.name) =>
                                        w.package_version_id.id.name = answer.name[1]
                                   /\ IsSome(answer.version) =>
                                        w.package_version_id.version = answer.version[1]}}

\* a store with reviews was asked by version without a name, and the call panicked
C17_Witness ==
    /\ ShapeAnswered
    /\ answer.op = "get_package_reviews_for_package"
    /\ answer.name = NoneOpt
    /\ answer.version = Some(Version(1, 0, 0))
    /\ get_pkg_reviews_for_version(db, "crates", "x", Version(1, 0, 0)) # {}
    /\ answer.result.panicked

----------------------------------------------------------------------------
(* SpecReaders: threads query the alternatives of a store whose ingestion is complete *)

\* number of threads calling get_derived_alternatives
NumReaders == 2
\* number of package reviews ingested before the threads start
MaxReaderProofs == 2

Threads == 1..NumReaders

\* the package reviews ingested before the threads start
ReaderReviews == {r \in PackageReviews : r.date = 1}

ReaderStreams ==
    UNION {[1..n -> {[proof |-> [kind |-> "package review", parsable |-> TRUE,
                                 content |-> r, signature |-> Sign(r)],
                      fetched_from |-> LocalUser] : r \in ReaderReviews}] :
              n \in 0..MaxReaderProofs}

\* sync::RwLock: the threads holding a read guard, the thread holding the write guard
Unlocked == [readers |-> {}, writer |-> 0]

ThreadAt(pc_, ord, i) == [pc |-> pc_, ord |-> ord, i |-> i]

\* the store after the stream; the derived index as a query left it after k of the
\* proofs (k = 0: never queried)
InitReaders ==
    /\ \E stream \in ReaderStreams :
        /\ db = import_from_iter(ProofDB_new, stream, 1)
        /\ \E k \in 0..Len(stream) :
            LET before == import_from_iter(ProofDB_new, SubSeq(stream, 1, k), 1)
            IN \E ord \in Orders(AlternativesKeys(before)) :
                 derived_alternatives =
                     get_derived_alternatives(before, AlternativesData_new, ord)
    /\ ingested = << >>
    /\ queried = FALSE
    /\ lock = Unlocked
    /\ tpc = [t \in Threads |-> ThreadAt("start", << >>, 0)]
    /\ guard = [t \in Threads |-> NoneOpt]
    /\ IdleOrder
    /\ IdleTrust
    /\ IdleIssues

ReaderFrame == UNCHANGED <<db, ingested, queried, orderVars, trustVars, issueVars>>

\* self.derived_alternatives.read(): granted while no thread holds the write guard
ReadLock(t) ==
    /\ tpc[t].pc = "start"
    /\ lock.writer = 0
    /\ lock' = [lock EXCEPT !.readers = @ \cup {t}]
    /\ tpc' = [tpc EXCEPT ![t].pc = "check"]
    /\ UNCHANGED <<derived_alternatives, guard>>
    /\ ReaderFrame

\* mutation: the counters are not compared, the first read guard is returned
counter_is_current_always(read, d) == TRUE

\* read.derived_recalculation_counter == self.insertion_counter
counter_is_current(read, d) == read.derived_recalculation_counter = d.insertion_counter

\* the test of the counter under the read guard: `return read`, or go on to recalculate
CheckCounter(t) ==
    /\ tpc[t].pc = "check"
    /\ tpc' = [tpc EXCEPT ![t].pc = IF counter_is_current(derived_alternatives, db)
                                    THEN "returned" ELSE "stale"]
    /\ UNCHANGED <<derived_alternatives, lock, guard>>
    /\ ReaderFrame

\* mutation: the read guard is still held when the write lock is requested
DropRead_kept(t) ==
    /\ tpc[t].pc = "stale"
    /\ tpc' = [tpc EXCEPT ![t].pc = "want_write"]
    /\ UNCHANGED <<derived_alternatives, lock, guard>>
    /\ ReaderFrame

\* the end of the first block drops the read guard
DropRead(t) ==
    /\ tpc[t].pc = "stale"
    /\ lock' = [lock EXCEPT !.readers = @ \ {t}]
    /\ tpc' = [tpc EXCEPT ![t].pc = "want_write"]
    /\ UNCHANGED <<derived_alternatives, guard>>
    /\ ReaderFrame

\* self.derived_alternatives.write(): granted while no thread holds any guard
WriteLock(t) ==
    /\ tpc[t].pc = "want_write"
    /\ lock = Unlocked
    /\ lock' = [lock EXCEPT !.writer = t]
    /\ tpc' = [tpc EXCEPT ![t].pc = "wipe"]
    /\ UNCHANGED <<derived_alternatives, guard>>
    /\ ReaderFrame

\* write.wipe(); the loop over package_alternatives starts, in some order of the HashMap
Wipe(t) ==
    /\ tpc[t].pc = "wipe"
    /\ derived_alternatives' = wipe(derived_alternatives)
    /\ \E ord \in Orders(AlternativesKeys(db)) :
        tpc' = [tpc EXCEPT ![t] = ThreadAt("record", ord, 1)]
    /\ UNCHANGED <<lock, guard>>
    /\ ReaderFrame

\* one write.record_from_proof of the loop
RecordFromProof(t) ==
    /\ tpc[t].pc = "record"
    /\ tpc[t].i <= Len(tpc[t].ord)
    /\ LET key == tpc[t].ord[tpc[t].i]
           signature == db.package_alternatives[key[1]][key[2]]
       IN derived_alternatives' =
              record_from_proof(derived_alternatives,
                                db.package_review_by_signature[signature.value],
                                signature.value)
    /\ tpc' = [tpc EXCEPT ![t].i = @ + 1]
    /\ UNCHANGED <<lock, guard>>
    /\ ReaderFrame

\* write.derived_recalculation_counter = self.insertion_counter
SetCounter(t) ==
    /\ tpc[t].pc = "record"
    /\ tpc[t].i > Len(tpc[t].ord)
    /\ derived_alternatives' =
           [derived_alternatives EXCEPT !.derived_recalculation_counter = db.insertion_counter]
    /\ tpc' = [tpc EXCEPT ![t] = ThreadAt("drop_write", << >>, 0)]
    /\ UNCHANGED <<lock, guard>>
    /\ ReaderFrame

\* the end of the second block drops the write guard
DropWrite(t) ==
    /\ tpc[t].pc = "drop_write"
    /\ lock' = [lock EXCEPT !.writer = 0]
    /\ tpc' = [tpc EXCEPT ![t].pc = "want_read"]
    /\ UNCHANGED <<derived_alternatives, guard>>
    /\ ReaderFrame

\* the last line: self.derived_alternatives.read(), returned as it is
ReadLockAgain(t) ==
    /\ tpc[t].pc = "want_read"
    /\ lock.writer = 0
    /\ lock' = [lock EXCEPT !.readers = @ \cup {t}]
    /\ tpc' = [tpc EXCEPT ![t].pc = "returned"]
    /\ UNCHANGED <<derived_alternatives, guard>>
    /\ ReaderFrame

\* get_pkg_alternatives / get_pkg_alternatives_by_author read for_pkg through the
\* returned guard and drop it
ReadAlternatives(t) ==
    /\ tpc[t].pc = "returned"
    /\ guard' = [guard EXCEPT ![t] = Some(derived_alternatives)]
    /\ lock' = [lock EXCEPT !.readers = @ \ {t}]
    /\ tpc' = [tpc EXCEPT ![t].pc = "done"]
    /\ UNCHANGED derived_alternatives
    /\ ReaderFrame

ThreadStep(t) ==
    \/ ReadLock(t) \/ CheckCounter(t) \/ DropRead(t) \/ WriteLock(t) \/ Wipe(t)
    \/ RecordFromProof(t) \/ SetCounter(t) \/ DropWrite(t) \/ ReadLockAgain(t)
    \/ ReadAlternatives(t)

NextReaders == \E t \in Threads : ThreadStep(t)

SpecReaders == InitReaders /\ [][NextReaders]_vars

\* the lock serves every thread that can take it
SpecReadersFair == SpecReaders /\ \A t \in Threads : WF_vars(ThreadStep(t))

----------------------------------------------------------------------------
(* Claims about concurrent readers *)

\* the index is the one a complete recalculation on the store gives
FullyRebuilt(alternatives) ==
    \E ord \in Orders(AlternativesKeys(db)) :
        alternatives = [RecordAll(db, AlternativesData_new, ord, 1)
                          EXCEPT !.derived_recalculation_counter = db.insertion_counter]

\* what the alternatives queries answer on an index
AlternativesAnswers(alternatives) ==
    [p \in Packages |->
        <<get_pkg_alternatives(alternatives, p),
          [id \in StoreIds |-> get_pkg_alternatives_by_author(alternatives, id, p)]>>]

\* C19: whatever the interleaving of the threads, the index behind every read guard
\* that get_derived_alternatives returned carries the counter of the store and is
\* completely rebuilt, never wiped or half rebuilt, and all threads get the same
\* answers to their alternatives queries.
C19_ReadersSeeRebuiltIndex ==
    /\ \A t \in Threads :
        tpc[t].pc = "returned" =>
            /\ derived_alternatives.derived_recalculation_counter = db.insertion_counter
            /\ FullyRebuilt(derived_alternatives)
    /\ \A t \in Threads :
        IsSome(guard[t]) =>
            /\ guard[t][1].derived_recalculation_counter = db.insertion_counter
            /\ FullyRebuilt(guard[t][1])
            /\ \A u \in Threads :
                IsSome(guard[u]) =>
                    AlternativesAnswers(guard[u][1]) = AlternativesAnswers(guard[t][1])

\* thread 1 holds the returned guard on a non-empty index while thread 2, which saw the
\* stale counter, waits to recalculate
C19_Witness ==
    /\ tpc[1].pc = "returned"
    /\ tpc[2].pc = "want_write"
    /\ derived_alternatives.for_pkg # EmptyMap
    /\ db.insertion_counter = 2

\* C20: a thread holds no read guard while it asks for the write lock and no write guard
\* while it asks for the read lock again; no state is reached in which a thread has
\* not returned and no thread can move; and when the lock serves the threads fairly,
\* every thread returns from its query.
C20_ReadersReturn ==
    /\ [](\A t \in Threads :
            /\ (t \in lock.readers) = (tpc[t].pc \in {"check", "stale", "returned"})
            /\ (lock.writer = t) = (tpc[t].pc \in {"wipe", "record", "drop_write"}))
    /\ []((\E t \in Threads : tpc[t].pc # "done") => ENABLED NextReaders)
    /\ <>(\A t \in Threads : tpc[t].pc = "done")

\* all threads saw the stale counter and ask for the write lock
C20_Witness ==
    /\ \A t \in Threads : tpc[t].pc = "want_write"
    /\ lock = Unlocked
    /\ derived_alternatives.derived_recalculation_counter # db.insertion_counter

====
